---------------------------- MODULE Spec2Model ----------------------------
(***************************************************************************)
(* A model of the pricing and ranking kernel of momentum-app:              *)
(*   options_service.py   Black-Scholes prices and Greeks, the strike      *)
(*                        search by delta, the put spread                  *)
(*   momentum_service.py  analyser_panel and generer_recommandations       *)
(*   app.py               generer_recommandations_short                    *)
(*                                                                         *)
(* Numbers are fixed point.  Money (spot, strike, price) counts units of   *)
(* 0.001, so a cent is CentUnits units; probabilities, deltas, rates and   *)
(* volatilities count units of 1/Unit; T counts days (the callers pass     *)
(* T = dte / 365).  The grid of money units plays the part of the float's  *)
(* representable values: a quotient that falls between two grid values is  *)
(* rounded to the nearest, ties to even, as IEEE-754 and Python's round do.*)
(***************************************************************************)
EXTENDS Integers, Sequences, FiniteSets, TLC

VARIABLES
    \* arguments of the call under evaluation
    S, K, T, r, sigma,
    \* results of put_price, delta_put, gamma, theta_put and the calls made
    put_val, delta_val, gamma_val, theta_val, evaluated, d1_calls,
    \* find_strike_by_delta: arguments, locals, position and returned strike
    target_delta, option_type, low_strike, high_strike, mid_strike,
    current_delta, iter, fs_pc, strike,
    \* calculate_put_spread: arguments and returned record
    delta_long, delta_short, spread,
    \* analyser_panel: argument, loop position, locals and returned dict;
    \* generer_recommandations: nb_top and returned dict; position of the run
    panel_tickers, cursor, resultats, erreurs, analyse, nb_top, reco, rank_pc,
    \* calculer_momentum_12_1: argument, returned value, position
    df_in, momentum_12_1, mom_pc,
    \* estimate_historical_volatility: arguments, returned value, number of
    \* prices read, position
    prices, window, vol, price_reads, vol_pc,
    \* estimate_iv_from_price: sigma, passes of the loop made, position
    iv_sigma, iv_iter, iv_pc,
    \* build_option_recommendation: arguments and returned dict
    spot_price, iv, momentum_score, perf_63_5, perf_5_0, dte_target, iv_rank,
    recommendation,
    \* call_price: returned value
    call_val,
    \* the web application: configured admin password, the rows of the
    \* settings, panel and history tables, the request served last and the
    \* response given to it
    ADMIN_PASSWORD, settings, panel_actions, short_panel_actions,
    recommendation_history, short_recommendation_history, last_request,
    last_response

argVars    == <<S, K, T, r, sigma>>
greekVars  == <<put_val, delta_val, gamma_val, theta_val, evaluated, d1_calls>>
strikeVars == <<target_delta, option_type, low_strike, high_strike, mid_strike,
                current_delta, iter, fs_pc, strike>>
spreadVars == <<delta_long, delta_short, spread>>
rankVars   == <<panel_tickers, cursor, resultats, erreurs, analyse, nb_top, reco,
                rank_pc>>
momVars    == <<df_in, momentum_12_1, mom_pc>>
volVars    == <<prices, window, vol, price_reads, vol_pc>>
ivVars     == <<iv_sigma, iv_iter, iv_pc>>
recoVars   == <<spot_price, iv, momentum_score, perf_63_5, perf_5_0, dte_target,
                iv_rank, recommendation>>
storedVars == <<settings, panel_actions, short_panel_actions,
                recommendation_history, short_recommendation_history>>
webVars    == <<ADMIN_PASSWORD, storedVars, last_request, last_response>>
restVars   == <<momVars, volVars, ivVars, recoVars, call_val, webVars>>
vars       == <<argVars, greekVars, strikeVars, spreadVars, rankVars, restVars>>

---------------------------------------------------------------------------
(* Fixed-point scales *)

Unit      == 10000     \* 1.0 of a probability, delta, rate or volatility
CentUnits == 10        \* money units in one cent: round(x, 2) keeps cents
DaysPerYear == 365

Max(a, b) == IF a >= b THEN a ELSE b
Min(a, b) == IF a <= b THEN a ELSE b
Abs(a)    == IF a >= 0 THEN a ELSE 0 - a

\* n / d rounded to the nearest integer, ties to even (d > 0)
DivHalfEven(n, d) ==
    LET q   == n \div d
        rem == n % d
    IN  IF 2 * rem < d THEN q
        ELSE IF 2 * rem > d THEN q + 1
        ELSE IF q % 2 = 0 THEN q ELSE q + 1

\* round(x, 2) of a money amount
Round2(x) == DivHalfEven(x, CentUnits) * CentUnits

---------------------------------------------------------------------------
(* math.sqrt, math.log, math.exp, norm.cdf, norm.pdf in fixed point *)

RECURSIVE IsqrtFrom(_, _, _)
IsqrtFrom(v, lo, hi) ==
    IF lo >= hi THEN lo
    ELSE LET m == (lo + hi + 1) \div 2
         IN  IF m * m <= v THEN IsqrtFrom(v, m, hi) ELSE IsqrtFrom(v, lo, m - 1)

\* math.sqrt(T) for T in days, in units of 0.001
math_sqrt(days) == IsqrtFrom((days * 1000000) \div DaysPerYear, 0, 40000)

\* sigma * math.sqrt(T), in units of 1/Unit
SigmaSqrtT(sig, days) == (sig * math_sqrt(days)) \div 1000

\* math.log(a / b) in units of 0.000001: 2 * atanh(z), z = (a - b) / (a + b),
\* by the series z + z^3 / 3
math_log(a, b) ==
    LET n  == (a - b) * 1000
        z  == (n \div (a + b)) * 1000 + ((n % (a + b)) * 1000) \div (a + b)
        z2 == ((z \div 100) * (z \div 100)) \div 100
        z3 == (z2 * (z \div 1000)) \div 1000
    IN  2 * z + (2 * z3) \div 3

\* math.exp(-r * T) in units of 1/Unit, by the series 1 - x + x^2 / 2
math_exp_neg(rate, days) ==
    LET x == (rate * days) \div DaysPerYear
    IN  Unit - x + (x * x) \div (2 * Unit)

\* norm.cdf and norm.pdf at 0, 0.1, 0.2, ... 4.0, in units of 1/Unit
CdfTable ==
    <<5000, 5398, 5793, 6179, 6554, 6915, 7257, 7580, 7881, 8159,
      8413, 8643, 8849, 9032, 9192, 9332, 9452, 9554, 9641, 9713,
      9772, 9821, 9861, 9893, 9918, 9938, 9953, 9965, 9974, 9981,
      9987, 9990, 9993, 9995, 9997, 9998, 9998, 9999, 9999, 10000,
      10000>>
PdfTable ==
    <<3989, 3970, 3910, 3814, 3683, 3521, 3332, 3123, 2897, 2661,
      2420, 2179, 1942, 1714, 1497, 1295, 1109, 940, 790, 656,
      540, 440, 355, 283, 224, 175, 136, 104, 79, 60,
      44, 33, 24, 17, 12, 9, 6, 4, 3, 2,
      0>>
TableStep == 1000

Interpolate(tab, x) ==
    IF x >= (Len(tab) - 1) * TableStep THEN tab[Len(tab)]
    ELSE LET i == x \div TableStep
         IN  tab[i + 1] + ((tab[i + 2] - tab[i + 1]) * (x % TableStep)) \div TableStep

norm_cdf(x) == IF x >= 0 THEN Interpolate(CdfTable, x)
               ELSE Unit - Interpolate(CdfTable, 0 - x)
norm_pdf(x) == Interpolate(PdfTable, Abs(x))

---------------------------------------------------------------------------
(* BLACK-SCHOLES CORE *)

d1(s, k, t, rate, sig) ==
    IF t <= 0 \/ sig <= 0 THEN 0
    ELSE LET drift == ((rate + (sig * sig) \div (2 * Unit)) * t * 100) \div DaysPerYear
         IN  ((math_log(s, k) + drift) * 100) \div SigmaSqrtT(sig, t)

d2(s, k, t, rate, sig) == d1(s, k, t, rate, sig) - SigmaSqrtT(sig, t)

\* K * exp(-r * T)
Discounted(k, rate, t) == (k * math_exp_neg(rate, t)) \div Unit

\* put_price without its early return at expiry
put_price_no_expiry(s, k, t, rate, sig) ==
    Max((Discounted(k, rate, t) * norm_cdf(0 - d2(s, k, t, rate, sig))
            - s * norm_cdf(0 - d1(s, k, t, rate, sig))) \div Unit, 0)

put_price(s, k, t, rate, sig) ==
    IF t <= 0 THEN Max(k - s, 0)
    ELSE LET put == (Discounted(k, rate, t) * norm_cdf(0 - d2(s, k, t, rate, sig))
                       - s * norm_cdf(0 - d1(s, k, t, rate, sig))) \div Unit
         IN  Max(put, 0)

(* GREEKS *)

delta_put(s, k, t, rate, sig) ==
    IF t <= 0 THEN (IF s < k THEN 0 - Unit ELSE 0)
    ELSE norm_cdf(d1(s, k, t, rate, sig)) - Unit

delta_call(s, k, t, rate, sig) ==
    IF t <= 0 THEN (IF s > k THEN Unit ELSE 0)
    ELSE norm_cdf(d1(s, k, t, rate, sig))

gamma(s, k, t, rate, sig) ==
    IF t <= 0 \/ sig <= 0 THEN 0
    ELSE (((norm_pdf(d1(s, k, t, rate, sig)) * Unit) \div SigmaSqrtT(sig, t)) * 100)
             \div (s \div 10)

\* theta_put with the time decay added instead of subtracted
theta_put_decay_added(s, k, t, rate, sig) ==
    IF t <= 0 THEN 0
    ELSE LET decay == (((((s * norm_pdf(d1(s, k, t, rate, sig))) \div Unit) * sig)
                           \div Unit) * 1000) \div (2 * math_sqrt(t))
             carry == (((rate * Discounted(k, rate, t)) \div Unit)
                           * norm_cdf(0 - d2(s, k, t, rate, sig))) \div Unit
         IN  (carry + decay) \div DaysPerYear

\* theta per day, in money units
theta_put(s, k, t, rate, sig) ==
    IF t <= 0 THEN 0
    ELSE LET decay == (((((s * norm_pdf(d1(s, k, t, rate, sig))) \div Unit) * sig)
                           \div Unit) * 1000) \div (2 * math_sqrt(t))
             carry == (((rate * Discounted(k, rate, t)) \div Unit)
                           * norm_cdf(0 - d2(s, k, t, rate, sig))) \div Unit
         IN  (carry - decay) \div DaysPerYear

\* vega for one percentage point of volatility, in money units
vega(s, k, t, rate, sig) ==
    IF t <= 0 THEN 0
    ELSE ((((s * math_sqrt(t)) \div 1000) * norm_pdf(d1(s, k, t, rate, sig)))
              \div Unit) \div 100

\* the number of times _d1 runs in one call (the _d2 of the code calls _d1)
d1_calls_put_price(t)      == IF t <= 0 THEN 0 ELSE 2
d1_calls_delta_put(t)      == IF t <= 0 THEN 0 ELSE 1
d1_calls_gamma(t, sig)     == IF t <= 0 \/ sig <= 0 THEN 0 ELSE 1
d1_calls_theta_put(t)      == IF t <= 0 THEN 0 ELSE 2


---------------------------------------------------------------------------
(* States of the parts of the program that a specification leaves at rest *)

IdleGreeks ==
    /\ put_val = 0 /\ delta_val = 0 /\ gamma_val = 0 /\ theta_val = 0
    /\ evaluated = {} /\ d1_calls = 0

IdleStrike ==
    /\ target_delta = 0 /\ option_type = "put"
    /\ low_strike = 0 /\ high_strike = 0 /\ mid_strike = 0
    /\ current_delta = 0 /\ iter = 0 /\ fs_pc = "idle" /\ strike = 0

NoSpread == [type |-> "none"]

IdleSpread == delta_long = 0 /\ delta_short = 0 /\ spread = NoSpread

\* no dict returned yet
NoAnalyse == [success |-> FALSE, date_calcul |-> "", resultats |-> <<>>,
              erreurs |-> <<>>]
NoReco == [date_calcul |-> "", nb_top |-> 0, recommandations |-> <<>>,
           total_investir |-> 0, erreurs |-> <<>>]

IdleRank ==
    /\ panel_tickers = <<>> /\ cursor = 0 /\ resultats = <<>> /\ erreurs = <<>>
    /\ analyse = NoAnalyse /\ nb_top = 0 /\ reco = NoReco /\ rank_pc = "idle"

NoMomentum == [defined |-> FALSE]

IdleMomentum == df_in = <<>> /\ momentum_12_1 = NoMomentum /\ mom_pc = "idle"

NoVol == [kind |-> "none"]

IdleVol ==
    /\ prices = <<>> /\ window = 0 /\ vol = NoVol /\ price_reads = 0
    /\ vol_pc = "idle"

IdleIv == iv_sigma = 0 /\ iv_iter = 0 /\ iv_pc = "idle"

NoRecommendation == [outcome |-> "none"]

\* the call passes no iv_rank argument
NoIvRank == [passed |-> FALSE]

IdleReco ==
    /\ spot_price = 0 /\ iv = 0 /\ momentum_score = 0 /\ perf_63_5 = 0
    /\ perf_5_0 = 0 /\ dte_target = 0 /\ iv_rank = NoIvRank
    /\ recommendation = NoRecommendation

\* app.config holds no ADMIN_PASSWORD
NoPassword == ""

\* no row of the settings table has the key
NoRow == [row |-> FALSE]

SettingsKeys == {"nb_top", "date_calcul", "short_nb_top", "short_date_calcul"}

NoSettings == [key \in SettingsKeys |-> NoRow]

\* no request served yet
NoRequest == [route |-> "none", token |-> "", tickers |-> <<>>]
NoResponse == [status |-> 0]

IdleWeb ==
    /\ ADMIN_PASSWORD = NoPassword /\ settings = NoSettings
    /\ panel_actions = <<>> /\ short_panel_actions = <<>>
    /\ recommendation_history = 0 /\ short_recommendation_history = 0
    /\ last_request = NoRequest /\ last_response = NoResponse

IdleRest ==
    IdleMomentum /\ IdleVol /\ IdleIv /\ IdleReco /\ call_val = 0 /\ IdleWeb

---------------------------------------------------------------------------
(* The pricing functions applied to given arguments *)

GreekSpots   == {90000, 100000, 100125}
GreekStrikes == {95000, 100000, 110000}
GreekDays    == {0 - 1, 0, 45}
GreekRates   == {0, 500}
GreekSigmas  == {0, 3000}

InitGreeks ==
    /\ S \in GreekSpots /\ K \in GreekStrikes /\ T \in GreekDays
    /\ r \in GreekRates /\ sigma \in GreekSigmas
    /\ IdleGreeks /\ IdleStrike /\ IdleSpread /\ IdleRank /\ IdleRest

EvalPutPrice ==
    /\ "put_price" \notin evaluated
    /\ put_val' = put_price(S, K, T, r, sigma)
    /\ d1_calls' = d1_calls + d1_calls_put_price(T)
    /\ evaluated' = evaluated \cup {"put_price"}
    /\ UNCHANGED <<delta_val, gamma_val, theta_val, argVars, strikeVars, spreadVars, rankVars, restVars>>

EvalDeltaPut ==
    /\ "delta_put" \notin evaluated
    /\ delta_val' = delta_put(S, K, T, r, sigma)
    /\ d1_calls' = d1_calls + d1_calls_delta_put(T)
    /\ evaluated' = evaluated \cup {"delta_put"}
    /\ UNCHANGED <<put_val, gamma_val, theta_val, argVars, strikeVars, spreadVars, rankVars, restVars>>

EvalGamma ==
    /\ "gamma" \notin evaluated
    /\ gamma_val' = gamma(S, K, T, r, sigma)
    /\ d1_calls' = d1_calls + d1_calls_gamma(T, sigma)
    /\ evaluated' = evaluated \cup {"gamma"}
    /\ UNCHANGED <<put_val, delta_val, theta_val, argVars, strikeVars, spreadVars, rankVars, restVars>>

EvalThetaPut ==
    /\ "theta_put" \notin evaluated
    /\ theta_val' = theta_put(S, K, T, r, sigma)
    /\ d1_calls' = d1_calls + d1_calls_theta_put(T)
    /\ evaluated' = evaluated \cup {"theta_put"}
    /\ UNCHANGED <<put_val, delta_val, gamma_val, argVars, strikeVars, spreadVars, rankVars, restVars>>

NextGreeks == EvalPutPrice \/ EvalDeltaPut \/ EvalGamma \/ EvalThetaPut

SpecGreeks == InitGreeks /\ [][NextGreeks]_vars

(* C5: when T <= 0, put_price returns exactly max(K - S, 0), delta_put
   returns -1 if S < K and 0 otherwise, gamma and theta_put return 0, and
   no call has evaluated d1 or d2. *)
C5_ExpiryValues ==
    T <= 0 =>
        /\ "put_price" \in evaluated => put_val = Max(K - S, 0)
        /\ "delta_put" \in evaluated => delta_val = (IF S < K THEN 0 - Unit ELSE 0)
        /\ "gamma" \in evaluated => gamma_val = 0
        /\ "theta_put" \in evaluated => theta_val = 0
        /\ d1_calls = 0

\* all four functions have run at expiry on an in-the-money put
C5_Witness ==
    /\ T <= 0 /\ S < K
    /\ evaluated = {"put_price", "delta_put", "gamma", "theta_put"}
    /\ put_val = K - S /\ delta_val = 0 - Unit

ThetaEvaluated ==
    "theta_put" \in evaluated /\ S > 0 /\ K > 0 /\ T >= 0 /\ sigma >= 0

(* C21 (as amended): for S > 0, K > 0, T >= 0, sigma >= 0 and r = 0,
   theta_put(S,K,T,r,sigma) <= 0. *)
C21_ThetaPutNonPositiveAtZeroRate ==
    (ThetaEvaluated /\ r = 0) => theta_val <= 0

\* a put that loses value with time at a zero rate
C21_Witness ==
    ThetaEvaluated /\ r = 0 /\ T > 0 /\ sigma > 0 /\ theta_val < 0

(* C21 (as stated): theta_put(S,K,T,r,sigma) <= 0 for S > 0, K > 0, T >= 0,
   sigma >= 0 and r >= 0, the case sigma = 0 with T > 0 included. *)
C21_ThetaPutNonPositive ==
    (ThetaEvaluated /\ r >= 0) => theta_val <= 0

---------------------------------------------------------------------------
(* STRIKE FINDER: find_strike_by_delta *)

\* math.log(S / K) raises for K <= 0, which only _d1 with T > 0 and sigma > 0
\* evaluates
pricing_raises(s, k, t, sig) == t > 0 /\ sig > 0 /\ (k <= 0 \/ s <= 0)

MaxIterations == 50     \* for _ in range(50)
Tolerance     == 10     \* abs(current_delta - target_delta) < 0.001

\* move_bounds with the put branch halving toward the wrong bound
move_bounds_put_reversed(type, low, high, mid, cur, target) ==
    IF cur > target THEN [low |-> low, high |-> mid]
    ELSE [low |-> mid, high |-> high]

\* the bounds of the search as one iteration leaves them
move_bounds(type, low, high, mid, cur, target) ==
    IF type = "put"
    THEN IF cur < target THEN [low |-> low, high |-> mid]
         ELSE [low |-> mid, high |-> high]
    ELSE IF cur > target THEN [low |-> low, high |-> mid]
         ELSE [low |-> mid, high |-> high]

option_delta(type, s, k, t, rate, sig) ==
    IF type = "put" THEN delta_put(s, k, t, rate, sig)
    ELSE delta_call(s, k, t, rate, sig)

\* the iteration with the sum of the bounds taken for their midpoint
bisect_iteration_unhalved(type, s, t, rate, sig, target, b) ==
    LET mid == b.low + b.high
        cur == option_delta(type, s, mid, t, rate, sig)
        nb  == move_bounds(type, b.low, b.high, mid, cur, target)
    IN  [low |-> nb.low, high |-> nb.high, mid |-> mid, cur |-> cur]

\* one iteration of the loop from the bounds b: the midpoint, its delta and
\* the new bounds
bisect_iteration(type, s, t, rate, sig, target, b) ==
    LET mid == DivHalfEven(b.low + b.high, 2)
        cur == option_delta(type, s, mid, t, rate, sig)
        nb  == move_bounds(type, b.low, b.high, mid, cur, target)
    IN  [low |-> nb.low, high |-> nb.high, mid |-> mid, cur |-> cur]

\* the loop left only when its 50 iterations are spent
loop_exits_on_budget_only(cur, target, n) == n >= MaxIterations

\* the loop is left after its n-th iteration: the break on the tolerance, or
\* range(50) exhausted
loop_exits(cur, target, n) ==
    Abs(cur - target) < Tolerance \/ n >= MaxIterations

\* the midpoint the loop ends with, n iterations having run before
RECURSIVE bisect_loop(_, _, _, _, _, _, _, _)
bisect_loop(type, s, t, rate, sig, target, b, n) ==
    LET nx == bisect_iteration(type, s, t, rate, sig, target, b)
    IN  IF loop_exits(nx.cur, target, n + 1)
        THEN nx.mid
        ELSE bisect_loop(type, s, t, rate, sig, target, nx, n + 1)

low_start(s)  == DivHalfEven(s, 2)          \* S * 0.5
high_start(s) == DivHalfEven(3 * s, 2)      \* S * 1.5

find_strike_by_delta(s, t, rate, sig, target, type) ==
    Round2(bisect_loop(type, s, t, rate, sig, target,
                       [low |-> low_start(s), high |-> high_start(s)], 0))

StrikeSpots   == {0, 100, 10000, 100000, 100125}
StrikeDays    == {0, 1, 45, 90}
StrikeSigmas  == {0, 100, 1000, 3000, 5000}
StrikeTargets == {0 - 3000, 0 - 1000, 3000}

InitStrike ==
    /\ S \in StrikeSpots /\ K = 0 /\ T \in StrikeDays /\ r = 500
    /\ sigma \in StrikeSigmas
    /\ target_delta \in StrikeTargets /\ option_type \in {"put", "call"}
    /\ low_strike = low_start(S) /\ high_strike = high_start(S)
    /\ mid_strike = 0 /\ current_delta = 0 /\ iter = 0
    /\ fs_pc = "loop" /\ strike = 0
    /\ IdleGreeks /\ IdleSpread /\ IdleRank /\ IdleRest

\* one pass through the body of the for loop; the delta of a midpoint 0
\* divides by zero in _d1 and the exception leaves the function
BisectStep ==
    /\ fs_pc = "loop"
    /\ IF pricing_raises(S, DivHalfEven(low_strike + high_strike, 2), T, sigma)
       THEN /\ mid_strike' = DivHalfEven(low_strike + high_strike, 2)
            /\ fs_pc' = "raised"
            /\ UNCHANGED <<current_delta, low_strike, high_strike, iter>>
       ELSE LET nx == bisect_iteration(option_type, S, T, r, sigma, target_delta,
                                       [low |-> low_strike, high |-> high_strike])
            IN  /\ mid_strike' = nx.mid
                /\ current_delta' = nx.cur
                /\ low_strike' = nx.low
                /\ high_strike' = nx.high
                /\ iter' = iter + 1
                /\ fs_pc' = IF loop_exits(nx.cur, target_delta, iter + 1)
                            THEN "return" ELSE "loop"
    /\ UNCHANGED <<target_delta, option_type, strike, argVars, greekVars, spreadVars, rankVars, restVars>>

\* return round(mid_strike, 2)
ReturnStrike ==
    /\ fs_pc = "return"
    /\ strike' = Round2(mid_strike)
    /\ fs_pc' = "done"
    /\ UNCHANGED <<target_delta, option_type, low_strike, high_strike, mid_strike,
                   current_delta, iter, argVars, greekVars, spreadVars, rankVars, restVars>>

NextStrike == BisectStep \/ ReturnStrike

SpecStrike == InitStrike /\ [][NextStrike]_vars

\* the target is a delta that some strike of [0.5 S, 1.5 S] reaches
TargetReached ==
    IF option_type = "put"
    THEN /\ delta_put(S, high_start(S), T, r, sigma) <= target_delta
         /\ target_delta <= delta_put(S, low_start(S), T, r, sigma)
    ELSE /\ delta_call(S, high_start(S), T, r, sigma) <= target_delta
         /\ target_delta <= delta_call(S, low_start(S), T, r, sigma)

\* S * sigma * sqrt(T) >= 0.5: over the half cent by which the rounding of
\* the strike can move it, the delta then moves by less than 0.009
GentleDelta == S * SigmaSqrtT(sigma, T) >= 5000000

PutSearchDone ==
    /\ fs_pc = "done" /\ option_type = "put" /\ T > 0 /\ sigma > 0
    /\ TargetReached

(* C1 (as amended): for a put with S > 0, T > 0, sigma > 0, a target delta
   reached inside [0.5 S, 1.5 S] and S * sigma * sqrt(T) >= 0.5, the strike
   find_strike_by_delta returns has a delta within 0.01 of the target. *)
C1_PutStrikeDeltaGentle ==
    (PutSearchDone /\ GentleDelta) =>
        Abs(delta_put(S, strike, T, r, sigma) - target_delta) <= 100

\* a converged put search whose strike the rounding to cents has moved
C1_Witness ==
    /\ PutSearchDone /\ GentleDelta
    /\ iter < MaxIterations /\ strike # mid_strike
    /\ Abs(delta_put(S, strike, T, r, sigma) - target_delta) <= 100

(* C1 (as claimed): for a put with S > 0, T > 0, sigma > 0 and a target
   delta reached inside [0.5 S, 1.5 S], the returned strike has a delta
   within 0.01 of the target. *)
C1_PutStrikeDelta ==
    PutSearchDone =>
        Abs(delta_put(S, strike, T, r, sigma) - target_delta) <= 100

(* C2: for a call with S > 0, T > 0, sigma > 0 and a target delta reached
   inside [0.5 S, 1.5 S], every bisection step keeps the half interval that
   holds the target strike (delta_call falls as the strike rises, so the
   delta at high_strike stays at or below the target and the delta at
   low_strike at or above it), and the returned strike has a delta within
   0.01 of the target. *)
C2_CallStrikeDelta ==
    (option_type = "call" /\ S > 0 /\ T > 0 /\ sigma > 0 /\ TargetReached) =>
        /\ delta_call(S, high_strike, T, r, sigma) <= target_delta
        /\ target_delta <= delta_call(S, low_strike, T, r, sigma)
        /\ fs_pc = "done" =>
               Abs(delta_call(S, strike, T, r, sigma) - target_delta) <= 100

\* _d1 never divides by zero: the spot is not 0, or d1 is 0 by convention
NoZeroSpot == S # 0 \/ T <= 0 \/ sigma <= 0

\* what the search has done so far agrees with the loop of the code
SearchWellBehaved ==
    /\ fs_pc # "raised"
    /\ iter <= MaxIterations
    /\ (fs_pc = "loop" /\ iter > 0) =>
           Abs(current_delta - target_delta) >= Tolerance
    /\ fs_pc = "loop" => iter < MaxIterations
    /\ fs_pc \in {"return", "done"} =>
           (iter = MaxIterations \/ Abs(current_delta - target_delta) < Tolerance)
    /\ fs_pc = "done" => strike = Round2(mid_strike)

(* C22 (as amended): for every input but a spot of 0 with T > 0 and
   sigma > 0, find_strike_by_delta runs at most 50 iterations, leaves the
   loop earlier exactly when |current_delta - target_delta| < 0.001, and
   returns the last midpoint rounded to cents without an error, also when the
   target was never reached. *)
C22_SearchTerminatesNonZeroSpot == NoZeroSpot => SearchWellBehaved

\* 50 iterations spent on a target no strike reaches, the midpoint returned
C22_Witness ==
    /\ NoZeroSpot /\ S > 0 /\ fs_pc = "done" /\ iter = MaxIterations
    /\ Abs(current_delta - target_delta) >= Tolerance
    /\ strike = Round2(mid_strike)

(* C22 (as stated): for every input, find_strike_by_delta runs at most 50
   iterations, leaves the loop earlier exactly when
   |current_delta - target_delta| < 0.001, and returns the last midpoint
   rounded to cents with no error, also when the target is never reached. *)
C22_SearchTerminates == SearchWellBehaved

\* 0.5 S <= low_strike <= high_strike <= 1.5 S, with the midpoint of the
\* last iteration between the two bounds
BoundsOrdered ==
    /\ low_start(S) <= low_strike /\ low_strike <= high_strike
    /\ high_strike <= high_start(S)
    /\ iter > 0 => (low_strike <= mid_strike /\ mid_strike <= high_strike)

\* an iteration moves one bound to its midpoint and leaves the other
OneBoundMoves ==
    iter' = iter + 1 =>
        \/ low_strike' = mid_strike' /\ high_strike' = high_strike
        \/ high_strike' = mid_strike' /\ low_strike' = low_strike

\* the strike is in [0.5 S, 1.5 S], up to the half cent of its rounding
StrikeInRange ==
    /\ 2 * strike >= 2 * low_start(S) - CentUnits
    /\ 2 * strike <= 2 * high_start(S) + CentUnits

(* C25: in find_strike_by_delta with S > 0, every iteration keeps
   0.5 S <= low_strike <= mid_strike <= high_strike <= 1.5 S and moves
   exactly one bound to the midpoint, and the strike returned lies in
   [0.5 S, 1.5 S] up to its rounding to cents, for puts and for calls. *)
C25_BoundsKept ==
    /\ [](S > 0 => BoundsOrdered)
    /\ []((S > 0 /\ fs_pc = "done") => StrikeInRange)
    /\ [][S > 0 => OneBoundMoves]_vars

\* a call search and a put search that ran all their iterations and returned
C25_Witness ==
    /\ S > 0 /\ fs_pc = "done" /\ iter > 1 /\ BoundsOrdered /\ StrikeInRange
    /\ low_strike > low_start(S) /\ high_strike < high_start(S)

---------------------------------------------------------------------------
(* PUT SPREAD CALCULATOR: calculate_put_spread *)

DollarUnits == 100 * CentUnits

\* the strike correction as a plain exchange of the two strikes
spread_strikes_swapped(sl, ss) ==
    IF sl <= ss THEN [long |-> ss, short |-> sl]
    ELSE [long |-> sl, short |-> ss]

\* if strike_long <= strike_short:
\*     strike_long, strike_short = strike_short + 1, strike_long - 1
spread_strikes(sl, ss) ==
    IF sl <= ss THEN [long |-> ss + DollarUnits, short |-> sl - DollarUnits]
    ELSE [long |-> sl, short |-> ss]

\* the breakeven with the premium added to the strike
spread_breakeven_added(strike_long, net_debit) == strike_long + net_debit

\* breakeven = strike_long - net_debit
spread_breakeven(strike_long, net_debit) == strike_long - net_debit

round3(x) == DivHalfEven(x, 10) * 10       \* round(x, 3) of a delta

\* the ratio with max_profit standing in where max_loss is not positive
risk_reward_profit_default(max_profit, max_loss) ==
    IF max_loss > 0 THEN DivHalfEven(max_profit * 100, max_loss)
    ELSE max_profit

\* risk_reward = max_profit / max_loss if max_loss > 0 else 0, rounded to
\* hundredths and counted in hundredths
risk_reward(max_profit, max_loss) ==
    IF max_loss > 0 THEN DivHalfEven(max_profit * 100, max_loss)
    ELSE 0

\* the record built from the two strikes, once they are settled
spread_record(s, t, rate, sig, strike_long, strike_short) ==
    IF pricing_raises(s, strike_long, t, sig) \/ pricing_raises(s, strike_short, t, sig)
    THEN [type |-> "raised"]
    ELSE
    LET price_long  == put_price(s, strike_long, t, rate, sig)
        price_short == put_price(s, strike_short, t, rate, sig)
        net_debit   == price_long - price_short
        max_profit  == (strike_long - strike_short) - net_debit
        max_loss    == net_debit
        breakeven   == spread_breakeven(strike_long, net_debit)
        ratio       == risk_reward(max_profit, max_loss)
    IN  [type |-> "PUT_SPREAD",
         spot_price |-> Round2(s),
         strike_long |-> Round2(strike_long),
         strike_short |-> Round2(strike_short),
         price_long |-> Round2(price_long),
         price_short |-> Round2(price_short),
         net_debit |-> Round2(net_debit),
         max_profit |-> Round2(max_profit),
         max_loss |-> Round2(max_loss),
         breakeven |-> Round2(breakeven),
         risk_reward_ratio |-> ratio,
         delta_long_actual |-> round3(delta_put(s, strike_long, t, rate, sig)),
         delta_short_actual |-> round3(delta_put(s, strike_short, t, rate, sig)),
         delta_spread |-> round3(delta_put(s, strike_long, t, rate, sig)
                                   - delta_put(s, strike_short, t, rate, sig)),
         gamma_spread |-> gamma(s, strike_long, t, rate, sig)
                            - gamma(s, strike_short, t, rate, sig),
         theta_spread |-> theta_put(s, strike_long, t, rate, sig)
                            - theta_put(s, strike_short, t, rate, sig),
         vega_spread |-> vega(s, strike_long, t, rate, sig)
                            - vega(s, strike_short, t, rate, sig),
         dte |-> t,
         iv_used |-> DivHalfEven(sig, 10)]

calculate_put_spread(s, t, rate, sig, d_long, d_short) ==
    CHOOSE rec \in
        { spread_record(s, t, rate, sig, found.long, found.short) :
            found \in { spread_strikes(sl, ss) :
                sl \in {find_strike_by_delta(s, t, rate, sig, d_long, "put")},
                ss \in {find_strike_by_delta(s, t, rate, sig, d_short, "put")} } } :
        TRUE

SpreadSpots  == {100, 1125, 100000, 100125}
SpreadDays   == {0, 1, 45}
SpreadSigmas == {0, 3000}
SpreadDeltas == {0 - 3000, 0 - 1000}

InitSpread ==
    /\ S \in SpreadSpots /\ K = 0 /\ T \in SpreadDays /\ r = 500
    /\ sigma \in SpreadSigmas
    /\ delta_long \in SpreadDeltas /\ delta_short \in SpreadDeltas
    /\ spread = NoSpread
    /\ IdleGreeks /\ IdleStrike /\ IdleRank /\ IdleRest

CalculatePutSpread ==
    /\ spread = NoSpread
    /\ spread' = calculate_put_spread(S, T, r, sigma, delta_long, delta_short)
    /\ UNCHANGED <<delta_long, delta_short, argVars, greekVars, strikeVars, rankVars, restVars>>

NextSpread == CalculatePutSpread

SpecSpread == InitSpread /\ [][NextSpread]_vars

SpreadReturned == spread.type = "PUT_SPREAD"

\* the two strike searches came back equal or inverted
StrikesDegenerate ==
    find_strike_by_delta(S, T, r, sigma, delta_long, "put")
        <= find_strike_by_delta(S, T, r, sigma, delta_short, "put")

(* C3: in every record calculate_put_spread returns, strike_long is above
   strike_short, also when the two searches return equal or inverted
   strikes and the correction is applied. *)
C3_LongAboveShort ==
    SpreadReturned => spread.strike_long > spread.strike_short

\* a record returned after the correction of equal or inverted strikes
C3_Witness ==
    SpreadReturned /\ StrikesDegenerate /\ spread.strike_long > spread.strike_short

(* C4 (as amended): in the returned record, breakeven differs from
   strike_long minus net_debit by at most one cent. *)
C4_BreakevenWithinCent ==
    SpreadReturned =>
        Abs(spread.breakeven - (spread.strike_long - spread.net_debit)) <= CentUnits

\* a returned record whose breakeven is one cent off strike_long - net_debit
C4_Witness ==
    /\ SpreadReturned
    /\ Abs(spread.breakeven - (spread.strike_long - spread.net_debit)) = CentUnits

(* C4 (as claimed): in the returned record, breakeven equals strike_long
   minus net_debit exactly. *)
C4_BreakevenExact ==
    SpreadReturned => spread.breakeven = spread.strike_long - spread.net_debit

\* net_debit = price_long - price_short, before the rounding of the record
NetDebit ==
    put_price(S, spread.strike_long, T, r, sigma)
        - put_price(S, spread.strike_short, T, r, sigma)

(* C23: calculate_put_spread never divides by a max_loss that is not
   positive: risk_reward_ratio is max_profit / max_loss when
   max_loss = net_debit > 0 and 0 when net_debit <= 0; max_loss is net_debit
   and max_profit is (strike_long - strike_short) - net_debit. *)
C23_RiskRewardGuarded ==
    SpreadReturned =>
        LET width == spread.strike_long - spread.strike_short
        IN  /\ spread.max_loss = Round2(NetDebit)
            /\ spread.max_loss = spread.net_debit
            /\ spread.max_profit = Round2(width - NetDebit)
            /\ NetDebit > 0 =>
                   spread.risk_reward_ratio
                       = DivHalfEven((width - NetDebit) * 100, NetDebit)
            /\ NetDebit <= 0 => spread.risk_reward_ratio = 0

\* a spread whose two puts are both worth nothing: no division, ratio 0
C23_Witness ==
    /\ SpreadReturned /\ NetDebit = 0 /\ spread.max_profit > 0
    /\ spread.risk_reward_ratio = 0

---------------------------------------------------------------------------
(* MOMENTUM RANKING: analyser_panel, generer_recommandations and
   generer_recommandations_short.  Percentages (momentum, allocation) count
   units of 0.001 %, so 0.01 % is CentUnits units and Round2 is round(x, 2).
   A ticker is a symbol and the form it is written in. *)

PctUnits == 1000       \* units in 1 %

IdleArgs == S = 0 /\ K = 0 /\ T = 0 /\ r = 0 /\ sigma = 0

IdleOptions == IdleArgs /\ IdleGreeks /\ IdleStrike /\ IdleSpread

TickerForms == {"clean", "lower padded"}

\* ticker.upper().strip()
upper_strip(ticker) == [ticker EXCEPT !.form = "clean"]

\* rows of monthly prices, oldest first: debut 13 rows before the end, fin
\* in the second last row
monthly(n, debut, fin) ==
    [i \in 1..n |->
        [date |-> i,
         adjClose |-> IF i = n - 12 THEN debut
                      ELSE IF i = n - 1 THEN fin
                      ELSE 77000 + i * 1000]]

newest_first(df) == [i \in 1..Len(df) |-> df[Len(df) + 1 - i]]

\* the rows without one of their keys
without(rows, key) ==
    [i \in 1..Len(rows) |->
        [k \in (DOMAIN rows[i]) \ {key} |-> rows[i][k]]]

\* a column exists in pd.DataFrame(rows) when some row has the key
has_column(rows, key) == \E i \in 1..Len(rows) : key \in DOMAIN rows[i]

\* what requests.get can come back with for one ticker: an exception, or a
\* response with a status code and, for 200, the JSON body (a list of rows,
\* or an object)
TiingoResponses ==
    { [kind |-> "Timeout"],
      [kind |-> "RequestException"],
      [kind |-> "response", status_code |-> 404],
      [kind |-> "response", status_code |-> 401],
      [kind |-> "response", status_code |-> 500] }
    \cup
    { [kind |-> "response", status_code |-> 200, data |-> d] :
        d \in { [shape |-> "list", rows |-> <<>>],
                [shape |-> "list", rows |-> monthly(12, 100000, 120000)],
                [shape |-> "list", rows |-> monthly(13, 100000, 120000)],
                [shape |-> "list", rows |-> newest_first(monthly(14, 50000, 60000))],
                [shape |-> "list", rows |-> monthly(13, 100000, 95000)],
                [shape |-> "list", rows |-> monthly(13, 3000, 4000)],
                [shape |-> "list", rows |-> monthly(13, 0, 4000)],
                [shape |-> "list", rows |-> without(monthly(13, 100000, 120000), "date")],
                [shape |-> "list", rows |-> without(monthly(13, 100000, 120000), "adjClose")],
                [shape |-> "list", rows |-> without(monthly(12, 100000, 120000), "adjClose")],
                [shape |-> "object"] } }

\* recuperer_prix_tiingo: (df, None), (None, erreur), or an exception that
\* neither except clause catches
recuperer_prix_tiingo(response) ==
    IF response.kind = "Timeout"
    THEN [outcome |-> "erreur", erreur |-> "Timeout de la requete"]
    ELSE IF response.kind = "RequestException"
    THEN [outcome |-> "erreur", erreur |-> "Erreur de connexion"]
    ELSE IF response.status_code = 200
    THEN IF response.data.shape = "object"
         THEN [outcome |-> "raised", exception |-> "ValueError"]
         ELSE IF Len(response.data.rows) = 0
         THEN [outcome |-> "erreur", erreur |-> "Aucune donnee disponible"]
         ELSE IF ~has_column(response.data.rows, "date")
         THEN [outcome |-> "raised", exception |-> "KeyError"]
         ELSE [outcome |-> "df", df |-> response.data.rows]
    ELSE IF response.status_code = 404
    THEN [outcome |-> "erreur", erreur |-> "Ticker non trouve sur Tiingo"]
    ELSE IF response.status_code = 401
    THEN [outcome |-> "erreur", erreur |-> "Erreur d'authentification API"]
    ELSE [outcome |-> "erreur",
          erreur |-> "Erreur API: Code " \o ToString(response.status_code)]

\* df.sort_index(): rows by ascending date
RECURSIVE sort_index(_)
sort_index(df) ==
    IF df = <<>> THEN <<>>
    ELSE LET rest == sort_index(SubSeq(df, 1, Len(df) - 1))
             row  == df[Len(df)]
             k    == Cardinality({i \in 1..Len(rest) : rest[i].date <= row.date})
         IN  SubSeq(rest, 1, k) \o <<row>> \o SubSeq(rest, k + 1, Len(rest))

\* calculer_momentum_12_1 reading the last row instead of the one before it
calculer_momentum_latest(df_prix) ==
    IF Len(df_prix) < 13 THEN NoMomentum
    ELSE LET sorted     == sort_index(df_prix)
             prix_debut == sorted[Len(sorted) - 12].adjClose
             prix_fin   == sorted[Len(sorted)].adjClose
         IN  IF prix_debut > 0
             THEN [defined |-> TRUE,
                   value |-> DivHalfEven((prix_fin - prix_debut) * 100 * PctUnits,
                                         prix_debut)]
             ELSE NoMomentum

\* calculer_momentum_12_1: None, or the 12-1 return in percent
calculer_momentum_12_1(df_prix) ==
    IF Len(df_prix) < 13 THEN NoMomentum
    ELSE LET sorted     == sort_index(df_prix)
             prix_debut == sorted[Len(sorted) - 12].adjClose
             prix_fin   == sorted[Len(sorted) - 1].adjClose
         IN  IF prix_debut > 0
             THEN [defined |-> TRUE,
                   value |-> DivHalfEven((prix_fin - prix_debut) * 100 * PctUnits,
                                         prix_debut)]
             ELSE NoMomentum

\* df_prix['adjClose'] raises KeyError when the frame has no such column;
\* the lookup is reached with 13 rows or more
momentum_raises(df_prix) == Len(df_prix) >= 13 /\ ~has_column(df_prix, "adjClose")

\* the body of the for loop of analyser_panel for one ticker: the two lists
\* after it, or the exception that leaves the loop and the function
analyse_ticker(ticker, fetch, res, errs) ==
    IF fetch.outcome = "raised"
    THEN [raised |-> TRUE, resultats |-> res, erreurs |-> errs]
    ELSE IF fetch.outcome = "erreur"
    THEN [raised |-> FALSE, resultats |-> res,
          erreurs |-> Append(errs, [ticker |-> ticker, erreur |-> fetch.erreur])]
    ELSE IF momentum_raises(fetch.df)
    THEN [raised |-> TRUE, resultats |-> res, erreurs |-> errs]
    ELSE LET momentum == calculer_momentum_12_1(fetch.df)
         IN  IF momentum.defined
             THEN [raised |-> FALSE,
                   resultats |-> Append(res, [ticker |-> ticker,
                                              momentum |-> momentum.value]),
                   erreurs |-> errs]
             ELSE [raised |-> FALSE, resultats |-> res,
                   erreurs |-> Append(errs,
                       [ticker |-> ticker,
                        erreur |-> "Donnees insuffisantes pour le calcul"])]

\* the insertion of an ascending sort (reverse=True forgotten)
insert_ascending(sorted, x) ==
    LET k == Cardinality({i \in 1..Len(sorted) : sorted[i].momentum <= x.momentum})
    IN  SubSeq(sorted, 1, k) \o <<x>> \o SubSeq(sorted, k + 1, Len(sorted))

\* the insertion of a descending sort that puts a record ahead of its equals
insert_before_ties(sorted, x) ==
    LET k == Cardinality({i \in 1..Len(sorted) : sorted[i].momentum > x.momentum})
    IN  SubSeq(sorted, 1, k) \o <<x>> \o SubSeq(sorted, k + 1, Len(sorted))

\* list.sort(key=momentum, reverse=True) is stable: a record goes behind
\* every record of greater or equal momentum that precedes it in the list
insert_descending(sorted, x) ==
    LET k == Cardinality({i \in 1..Len(sorted) : sorted[i].momentum >= x.momentum})
    IN  SubSeq(sorted, 1, k) \o <<x>> \o SubSeq(sorted, k + 1, Len(sorted))

\* resultats.sort(key=lambda x: x['momentum'], reverse=True)
RECURSIVE sort_resultats(_)
sort_resultats(res) ==
    IF res = <<>> THEN <<>>
    ELSE insert_descending(sort_resultats(SubSeq(res, 1, Len(res) - 1)),
                           res[Len(res)])

\* for i, r in enumerate(resultats): r['rank'] = i + 1
assign_ranks(res) ==
    [i \in 1..Len(res) |->
        [ticker |-> res[i].ticker, momentum |-> res[i].momentum, rank |-> i]]

DateCalcul == "2026-01-15"

\* the dict analyser_panel returns once the loop is over
analyse_result(res, errs) ==
    LET ranked == assign_ranks(sort_resultats(res))
    IN  [success |-> Len(ranked) > 0,
         date_calcul |-> DateCalcul,
         resultats |-> ranked,
         erreurs |-> errs]

\* allocation_par_action rounded to one decimal
allocation_one_decimal(nb_selection) ==
    IF nb_selection > 0
    THEN DivHalfEven(100 * PctUnits, nb_selection * 10 * CentUnits) * 10 * CentUnits
    ELSE 0

\* round(100.0 / nb_selection, 2) if nb_selection > 0 else 0
allocation_par_action(nb_selection) ==
    IF nb_selection > 0
    THEN DivHalfEven(100 * PctUnits, nb_selection * CentUnits) * CentUnits
    ELSE 0

\* the selection test with the record after the last selected one included
selected_inclusive(i, nb_selection) == i <= nb_selection

\* if i < nb_selection, i counted from 0 by enumerate
selected(i, nb_selection) == i < nb_selection

\* every record given the share of a selected record
allocation_of_all(i, nb_selection) == allocation_par_action(nb_selection)

\* allocation = allocation_par_action, or 0.0 for a record not selected
allocation_of(i, nb_selection) ==
    IF selected(i, nb_selection) THEN allocation_par_action(nb_selection) ELSE 0

generer_recommandations(resultats_analyse, nb) ==
    IF ~resultats_analyse.success
    THEN [date_calcul |-> resultats_analyse.date_calcul,
          nb_top |-> nb,
          recommandations |-> <<>>,
          total_investir |-> 0,
          erreurs |-> resultats_analyse.erreurs]
    ELSE LET res          == resultats_analyse.resultats
             nb_actions   == Len(res)
             nb_selection == Min(nb, nb_actions)
         IN  [date_calcul |-> resultats_analyse.date_calcul,
              nb_top |-> nb,
              recommandations |->
                  [j \in 1..nb_actions |->
                      [ticker |-> res[j].ticker,
                       momentum |-> Round2(res[j].momentum),
                       signal |-> IF selected(j - 1, nb_selection)
                                  THEN "Investir" ELSE "Sortir",
                       allocation |-> allocation_of(j - 1, nb_selection),
                       rank |-> res[j].rank]],
              total_investir |-> nb_selection,
              erreurs |-> resultats_analyse.erreurs]

\* dict.get(key, default)
get(rec, key, default) == IF key \in DOMAIN rec THEN rec[key] ELSE default

\* the empty dict {}
EmptyDict == <<>>

generer_recommandations_short(resultats_analyse, nb) ==
    IF ~resultats_analyse.success
    THEN [date_calcul |-> resultats_analyse.date_calcul,
          nb_top |-> nb,
          recommandations |-> <<>>,
          total_shorter |-> 0,
          erreurs |-> resultats_analyse.erreurs,
          methode |-> get(resultats_analyse, "methode", EmptyDict)]
    ELSE LET res          == resultats_analyse.resultats
             nb_actions   == Len(res)
             nb_selection == Min(nb, nb_actions)
         IN  [date_calcul |-> resultats_analyse.date_calcul,
              nb_top |-> nb,
              recommandations |->
                  [j \in 1..nb_actions |->
                      [ticker |-> res[j].ticker,
                       momentum |-> Round2(res[j].momentum),
                       perf_lookback |-> get(res[j], "perf_lookback", 0),
                       perf_recent |-> get(res[j], "perf_recent", 0),
                       prix_actuel |-> get(res[j], "prix_actuel", 0),
                       signal |-> IF selected(j - 1, nb_selection)
                                  THEN "Shorter" ELSE "Couvrir",
                       allocation |-> allocation_of(j - 1, nb_selection),
                       rank |-> res[j].rank]],
              total_shorter |-> nb_selection,
              erreurs |-> resultats_analyse.erreurs,
              methode |-> get(resultats_analyse, "methode", EmptyDict)]

\* the analysis came from analyser_panel_short
IsShortAnalysis(a) == "methode" \in DOMAIN a

---------------------------------------------------------------------------
(* One run of the calculation: the loop of analyser_panel over the panel,
   its return, then generer_recommandations with the nb_top setting *)

MaxPanel == 3
MaxNbTop == 4

Panels ==
    { [i \in 1..n |-> [sym |-> i, form |-> f]] : n \in 0..MaxPanel, f \in TickerForms }

InitRank ==
    /\ panel_tickers \in Panels
    /\ nb_top \in (0 - 1)..MaxNbTop
    /\ cursor = 1 /\ resultats = <<>> /\ erreurs = <<>>
    /\ analyse = NoAnalyse /\ reco = NoReco /\ rank_pc = "loop"
    /\ IdleOptions /\ IdleRest

\* one pass through the body of the for loop: the prices of the ticker are
\* fetched and its momentum or its error is recorded, unless an exception
\* leaves analyser_panel
AnalyseTicker ==
    /\ rank_pc = "loop" /\ cursor <= Len(panel_tickers)
    /\ \E response \in TiingoResponses :
          LET step == analyse_ticker(upper_strip(panel_tickers[cursor]),
                                     recuperer_prix_tiingo(response),
                                     resultats, erreurs)
          IN  /\ resultats' = step.resultats /\ erreurs' = step.erreurs
              /\ IF step.raised
                 THEN rank_pc' = "raised" /\ cursor' = cursor
                 ELSE rank_pc' = rank_pc /\ cursor' = cursor + 1
    /\ UNCHANGED <<panel_tickers, analyse, nb_top, reco,
                   argVars, greekVars, strikeVars, spreadVars, restVars>>

\* the loop is over: the list is sorted and ranked in place and returned
ReturnAnalyse ==
    /\ rank_pc = "loop" /\ cursor > Len(panel_tickers)
    /\ analyse' = analyse_result(resultats, erreurs)
    /\ resultats' = analyse'.resultats
    /\ rank_pc' = "analysed"
    /\ UNCHANGED <<panel_tickers, cursor, erreurs, nb_top, reco,
                   argVars, greekVars, strikeVars, spreadVars, restVars>>

GenererRecommandations ==
    /\ rank_pc = "analysed" /\ ~IsShortAnalysis(analyse)
    /\ reco' = generer_recommandations(analyse, nb_top)
    /\ rank_pc' = "done"
    /\ UNCHANGED <<panel_tickers, cursor, resultats, erreurs, analyse, nb_top,
                   argVars, greekVars, strikeVars, spreadVars, restVars>>

NextRank == AnalyseTicker \/ ReturnAnalyse \/ GenererRecommandations

SpecRank == InitRank /\ [][NextRank]_vars

Analysed == rank_pc \in {"analysed", "done"}

\* the position in the input panel of a ticker of the result list
PanelIndex(ticker) ==
    CHOOSE i \in 1..Len(panel_tickers) : upper_strip(panel_tickers[i]) = ticker

(* C6: the result list of analyser_panel carries the ranks 1..n in order,
   each once and without gap, with momentum non-increasing as the rank
   grows; generer_recommandations returns the same tickers with the same
   ranks in the same order. *)
C6_RanksContiguousOrdered ==
    /\ Analysed =>
          \A i \in 1..Len(analyse.resultats) :
              /\ analyse.resultats[i].rank = i
              /\ i > 1 => analyse.resultats[i - 1].momentum
                              >= analyse.resultats[i].momentum
    /\ rank_pc = "done" =>
          /\ Len(reco.recommandations) = Len(analyse.resultats)
          /\ \A i \in 1..Len(reco.recommandations) :
                /\ reco.recommandations[i].rank = i
                /\ reco.recommandations[i].ticker = analyse.resultats[i].ticker
                /\ i > 1 => reco.recommandations[i - 1].momentum
                                >= reco.recommandations[i].momentum

\* three tickers ranked in the reverse of their panel order, and returned by
\* generer_recommandations
C6_Witness ==
    /\ rank_pc = "done" /\ Len(reco.recommandations) = 3
    /\ PanelIndex(reco.recommandations[1].ticker) = 3
    /\ PanelIndex(reco.recommandations[3].ticker) = 1
    /\ reco.recommandations[1].momentum > reco.recommandations[3].momentum

(* C10: the rank of a ticker is fixed by the momentum values and the panel
   order alone: it is one more than the number of ranked tickers with a
   greater momentum plus the number with an equal momentum that come
   earlier in the panel; so among equal momentum the earlier ticker has the
   smaller rank. *)
C10_RanksStable ==
    Analysed =>
        \A i \in 1..Len(analyse.resultats) :
            LET me == analyse.resultats[i]
            IN  me.rank = 1 + Cardinality(
                    {j \in 1..Len(analyse.resultats) :
                        LET other == analyse.resultats[j]
                        IN  \/ other.momentum > me.momentum
                            \/ /\ other.momentum = me.momentum
                               /\ PanelIndex(other.ticker) < PanelIndex(me.ticker)})

\* two tickers of equal momentum ranked behind a ticker that comes after
\* both in the panel
C10_Witness ==
    /\ Analysed /\ Len(analyse.resultats) = 3
    /\ PanelIndex(analyse.resultats[1].ticker) = 3
    /\ analyse.resultats[2].momentum = analyse.resultats[3].momentum
    /\ PanelIndex(analyse.resultats[2].ticker) = 1
    /\ PanelIndex(analyse.resultats[3].ticker) = 2

---------------------------------------------------------------------------
(* The recommendations drawn from a ranked analysis, for every nb_top the
   settings route accepts *)

MinNbTopSetting == 1       \* if 1 <= nb_top <= 50: Settings.set('nb_top', ..)
MaxNbTopSetting == 50
MaxCount == 50             \* ranked tickers in the analysis

\* a result list as analyser_panel leaves it: momentum descending, ranks 1..count
ranked_long(count) ==
    [i \in 1..count |->
        [ticker |-> [sym |-> i, form |-> "clean"],
         momentum |-> (count - i) * 1255 - 20000,
         rank |-> i]]

analysis_long(count) ==
    [success |-> count > 0,
     date_calcul |-> DateCalcul,
     resultats |-> ranked_long(count),
     erreurs |-> <<>>]

\* a result list as analyser_panel_short leaves it: momentum ascending
ranked_short(count) ==
    [i \in 1..count |->
        [ticker |-> [sym |-> i, form |-> "clean"],
         momentum |-> (i - count) * 1255 - 15000,
         perf_lookback |-> (i - count) * 1255 - 15000,
         perf_recent |-> 2000 - i * 100,
         prix_actuel |-> 100000 + i * 1000,
         rank |-> i]]

analysis_short(count) ==
    [success |-> count > 0,
     date_calcul |-> DateCalcul,
     resultats |-> ranked_short(count),
     erreurs |-> <<>>,
     methode |-> [lookback |-> 63, skip_recent |-> 5]]

InitAlloc ==
    /\ \E count \in 0..MaxCount :
          /\ analyse \in {analysis_long(count), analysis_short(count)}
          /\ panel_tickers = [i \in 1..count |-> [sym |-> i, form |-> "clean"]]
          /\ cursor = count + 1
    /\ resultats = analyse.resultats /\ erreurs = <<>>
    /\ nb_top \in MinNbTopSetting..MaxNbTopSetting
    /\ reco = NoReco /\ rank_pc = "analysed"
    /\ IdleOptions /\ IdleRest

GenererRecommandationsShort ==
    /\ rank_pc = "analysed" /\ IsShortAnalysis(analyse)
    /\ reco' = generer_recommandations_short(analyse, nb_top)
    /\ rank_pc' = "done"
    /\ UNCHANGED <<panel_tickers, cursor, resultats, erreurs, analyse, nb_top,
                   argVars, greekVars, strikeVars, spreadVars, restVars>>

NextAlloc == GenererRecommandations \/ GenererRecommandationsShort

SpecAlloc == InitAlloc /\ [][NextAlloc]_vars

Recs == reco.recommandations

Selected == {i \in 1..Len(Recs) : Recs[i].signal \in {"Investir", "Shorter"}}

RECURSIVE SumAllocations(_, _)
SumAllocations(recs, indices) ==
    IF indices = {} THEN 0
    ELSE LET i == CHOOSE x \in indices : TRUE
         IN  recs[i].allocation + SumAllocations(recs, indices \ {i})

LongBatch == rank_pc = "done" /\ ~IsShortAnalysis(analyse)

\* a is a whole number of hundredths of a percent and none is nearer to 100 / n
IsEqualShare(a, n) ==
    /\ a % CentUnits = 0
    /\ 2 * Abs(a * n - 100 * PctUnits) <= CentUnits * n

(* C7: for a successful analysis and nb_top >= 1, generer_recommandations
   selects exactly N = min(nb_top, count) records, those of rank 1..N; each
   has signal Investir and allocation round(100 / N, 2); every other record
   has signal Sortir and allocation 0. *)
C7_TopNSelected ==
    (LongBatch /\ analyse.success /\ nb_top >= 1) =>
        LET N == Min(nb_top, Len(analyse.resultats))
        IN  /\ Len(Recs) = Len(analyse.resultats)
            /\ Cardinality({i \in 1..Len(Recs) : Recs[i].signal = "Investir"}) = N
            /\ reco.total_investir = N
            /\ \A i \in 1..Len(Recs) :
                  IF Recs[i].rank <= N
                  THEN /\ Recs[i].signal = "Investir"
                       /\ IsEqualShare(Recs[i].allocation, N)
                  ELSE /\ Recs[i].signal = "Sortir"
                       /\ Recs[i].allocation = 0

\* 5 tickers, nb_top = 2: two records at 50.00, three at 0.0
C7_Witness ==
    /\ LongBatch /\ nb_top = 2 /\ Len(Recs) = 5
    /\ Recs[1].allocation = 50 * PctUnits /\ Recs[2].allocation = 50 * PctUnits
    /\ \A i \in 3..5 : Recs[i].signal = "Sortir" /\ Recs[i].allocation = 0

(* C8 (as amended): for a batch of generer_recommandations with N selected
   records, 1 <= N <= 50, the allocations of the selected records sum to
   within 0.005 * N of 100: within 0.1 for N <= 20 and within 0.19 for
   every N up to 50. *)
C8_SelectedSumNearHundred ==
    (LongBatch /\ reco.total_investir >= 1 /\ reco.total_investir <= MaxNbTopSetting) =>
        LET N     == reco.total_investir
            drift == Abs(SumAllocations(Recs, Selected) - 100 * PctUnits)
        IN  /\ 2 * drift <= CentUnits * N
            /\ drift <= 19 * CentUnits
            /\ N <= 20 => drift <= 10 * CentUnits

\* 32 selected records at 3.12 each: 99.84
C8_Witness ==
    /\ LongBatch /\ reco.total_investir = 32
    /\ SumAllocations(Recs, Selected) = 100 * PctUnits - 16 * CentUnits

(* C8 (as claimed): for a batch of generer_recommandations with N selected
   records, 1 <= N <= 50, the allocations of the selected records sum to
   within 0.1 of 100. *)
C8_SelectedSumWithinTenth ==
    (LongBatch /\ reco.total_investir >= 1 /\ reco.total_investir <= MaxNbTopSetting) =>
        Abs(SumAllocations(Recs, Selected) - 100 * PctUnits) <= 10 * CentUnits

(* C9 (as amended): in every batch of generer_recommandations and of
   generer_recommandations_short, the allocations of all records sum to 0
   when no record is selected, and otherwise to a value within 0.005 * N of
   100 (N the number of selected records), which can be below or above 100. *)
C9_BatchSumNearHundred ==
    rank_pc = "done" =>
        LET total == SumAllocations(Recs, 1..Len(Recs))
            N     == Cardinality(Selected)
        IN  IF N = 0 THEN total = 0
            ELSE 2 * Abs(total - 100 * PctUnits) <= CentUnits * N

\* a short batch of 7 selected records at 14.29 each: 100.03
C9_Witness ==
    /\ rank_pc = "done" /\ IsShortAnalysis(analyse)
    /\ Cardinality(Selected) = 7 /\ Len(Recs) > 7
    /\ SumAllocations(Recs, 1..Len(Recs)) = 100 * PctUnits + 3 * CentUnits

(* C9 (as claimed): in every batch of generer_recommandations and of
   generer_recommandations_short, the allocations sum to at most 100, and
   to exactly 100 when at least one record is selected. *)
C9_BatchSumExactlyHundred ==
    rank_pc = "done" =>
        LET total == SumAllocations(Recs, 1..Len(Recs))
        IN  /\ total <= 100 * PctUnits
            /\ Cardinality(Selected) >= 1 => total = 100 * PctUnits

---------------------------------------------------------------------------
(* Error handling of analyser_panel *)

InErreurs(ticker) == \E i \in 1..Len(erreurs) : erreurs[i].ticker = ticker

InResultats(ticker) == \E i \in 1..Len(resultats) : resultats[i].ticker = ticker

(* C11: when analyser_panel is over, every ticker of the panel is in exactly
   one of the two lists, erreurs or resultats: a failing ticker does not
   stop the processing of the tickers after it. *)
C11_EveryTickerInOneList ==
    rank_pc # "loop" =>
        \A i \in 1..Len(panel_tickers) :
            InErreurs(upper_strip(panel_tickers[i]))
                # InResultats(upper_strip(panel_tickers[i]))

(* C12: analyser_panel never raises because of the data of one ticker:
   whatever the fetch of a ticker comes back with, the call returns. *)
C12_NeverRaises == rank_pc # "raised"

---------------------------------------------------------------------------
(* calculer_momentum_12_1 applied to a frame of monthly prices *)

MaxRows == 15

\* the rows with the price of the most recent date replaced
with_last_price(rows, price) ==
    [i \in 1..Len(rows) |->
        IF \A j \in 1..Len(rows) : rows[j].date <= rows[i].date
        THEN [rows[i] EXCEPT !.adjClose = price]
        ELSE rows[i]]

\* base price and price one month back, and prices of the most recent month
BasePrevPrices ==
    { <<100000, 120000>>, <<100000, 95000>>, <<3000, 4000>>, <<0, 4000>>,
      <<0 - 3000, 4000>> }
LastPriceSteps == {1000, 7000}

MomentumFrames ==
    { IF newest
      THEN newest_first(with_last_price(monthly(n, bp[1], bp[2]), bp[1] + step))
      ELSE with_last_price(monthly(n, bp[1], bp[2]), bp[1] + step) :
        n \in 0..MaxRows, bp \in BasePrevPrices, step \in LastPriceSteps,
        newest \in BOOLEAN }

InitMomentum ==
    /\ df_in \in MomentumFrames
    /\ momentum_12_1 = NoMomentum /\ mom_pc = "call"
    /\ IdleOptions /\ IdleRank /\ IdleVol /\ IdleIv /\ IdleReco /\ call_val = 0
    /\ IdleWeb

CalculerMomentum ==
    /\ mom_pc = "call"
    /\ momentum_12_1' = calculer_momentum_12_1(df_in)
    /\ mom_pc' = "done"
    /\ UNCHANGED <<df_in, argVars, greekVars, strikeVars, spreadVars, rankVars,
                   volVars, ivVars, recoVars, call_val, webVars>>

NextMomentum == CalculerMomentum

SpecMomentum == InitMomentum /\ [][NextMomentum]_vars

\* the price of the row that has exactly `later` rows of a later date
price_back(rows, later) ==
    LET i == CHOOSE i \in 1..Len(rows) :
                 Cardinality({j \in 1..Len(rows) : rows[j].date > rows[i].date}) = later
    IN  rows[i].adjClose

(* C13 (as amended): calculer_momentum_12_1 returns None for fewer than 13
   observations and for a 13th most recent price p_base <= 0; otherwise it
   returns (p_prev - p_base) / p_base * 100, p_prev the second most recent
   price by date, and the most recent price has no influence. *)
C13_MomentumFormulaPositiveBase ==
    mom_pc = "done" =>
        IF Len(df_in) < 13 THEN momentum_12_1 = NoMomentum
        ELSE LET p_prev == price_back(df_in, 1)
                 p_base == price_back(df_in, 12)
             IN  IF p_base <= 0 THEN momentum_12_1 = NoMomentum
                 ELSE /\ momentum_12_1.defined
                      /\ momentum_12_1.value
                           = DivHalfEven((p_prev - p_base) * 100 * PctUnits, p_base)
                      /\ \A step \in LastPriceSteps :
                            calculer_momentum_12_1(
                                with_last_price(df_in, p_base + step))
                                    = momentum_12_1

\* 13 prices delivered newest first, base 100 and second-to-last 120: 20.0
C13_Witness ==
    /\ mom_pc = "done" /\ Len(df_in) = 13 /\ df_in[1].date > df_in[2].date
    /\ price_back(df_in, 12) = 100000 /\ price_back(df_in, 1) = 120000
    /\ momentum_12_1 = [defined |-> TRUE, value |-> 20 * PctUnits]

(* C13 (as claimed): calculer_momentum_12_1 returns None for fewer than 13
   observations and otherwise returns (p_prev - p_base) / p_base * 100. *)
C13_MomentumFormula ==
    mom_pc = "done" =>
        IF Len(df_in) < 13 THEN momentum_12_1 = NoMomentum
        ELSE LET p_prev == price_back(df_in, 1)
                 p_base == price_back(df_in, 12)
             IN  /\ momentum_12_1.defined
                 /\ p_base # 0 =>
                       momentum_12_1.value
                           = DivHalfEven((p_prev - p_base) * 100 * PctUnits, p_base)

---------------------------------------------------------------------------
(* estimate_historical_volatility.  Prices count money units, log returns,
   volatilities and variances count units of 1/Unit (variances of its
   square). *)

DefaultVolatility == 3000     \* return 0.30
TradingDays == 252

RECURSIVE SumSeq(_)
SumSeq(seq) == IF seq = <<>> THEN 0 ELSE seq[1] + SumSeq(Tail(seq))

\* the test with the window taken for the number of prices needed
insufficient_prices_off_by_one(price_list, win) == Len(price_list) < win

\* if len(prices) < window + 1
insufficient_prices(price_list, win) == Len(price_list) < win + 1

\* the indices i of range(1, len(prices)) (counted from 1 here) that pass
\* if prices[i-1] > 0
return_indices(price_list) ==
    {i \in 2..Len(price_list) : price_list[i - 1] > 0}

\* math.log(prices[i] / prices[i-1]) raises ValueError for a ratio <= 0
log_raises(price_list) == \E i \in return_indices(price_list) : price_list[i] <= 0

RECURSIVE log_returns(_, _)
log_returns(price_list, i) ==
    IF i > Len(price_list) THEN <<>>
    ELSE IF price_list[i - 1] > 0
    THEN <<DivHalfEven(math_log(price_list[i], price_list[i - 1]), 100)>>
             \o log_returns(price_list, i + 1)
    ELSE log_returns(price_list, i + 1)

\* every return kept, whatever the window
recent_slice_whole(returns, win) == returns

\* returns[-window:]
recent_slice(returns, win) ==
    IF win > 0 THEN SubSeq(returns, Max(Len(returns) - win, 0) + 1, Len(returns))
    ELSE SubSeq(returns, Min(0 - win, Len(returns)) + 1, Len(returns))

RECURSIVE squared_deviations(_, _)
squared_deviations(returns, mean) ==
    IF returns = <<>> THEN <<>>
    ELSE <<(returns[1] - mean) * (returns[1] - mean)>>
             \o squared_deviations(Tail(returns), mean)

\* the value returned, or the exception raised
estimate_historical_volatility(price_list, win) ==
    IF insufficient_prices(price_list, win)
    THEN [kind |-> "value", value |-> DefaultVolatility]
    ELSE IF log_raises(price_list)
    THEN [kind |-> "raised", exception |-> "ValueError"]
    ELSE LET returns == log_returns(price_list, 2)
         IN  IF Len(returns) < win
             THEN [kind |-> "value", value |-> DefaultVolatility]
             ELSE LET recent_returns == recent_slice(returns, win)
                  IN  IF Len(recent_returns) = 0
                      THEN [kind |-> "raised", exception |-> "ZeroDivisionError"]
                      ELSE LET mean == DivHalfEven(SumSeq(recent_returns),
                                                   Len(recent_returns))
                               variance ==
                                   DivHalfEven(
                                       SumSeq(squared_deviations(recent_returns, mean)),
                                       Len(recent_returns))
                           IN  [kind |-> "value",
                                value |-> IsqrtFrom(variance * TradingDays, 0, 46340)]

\* the number of subscript reads prices[..] the call makes
prices_read(price_list, win) ==
    IF insufficient_prices(price_list, win) THEN 0
    ELSE (Len(price_list) - 1) + 2 * Cardinality(return_indices(price_list))

MaxPrices == 4
PriceValues == {0, 100000, 102000}
Windows == {0, 1, 2, 3, 30}

RECURSIVE PriceLists(_)
PriceLists(n) ==
    IF n = 0 THEN {<<>>}
    ELSE PriceLists(n - 1)
         \cup {Append(l, p) : l \in {x \in PriceLists(n - 1) : Len(x) = n - 1},
                             p \in PriceValues}

InitVol ==
    /\ prices \in PriceLists(MaxPrices) /\ window \in Windows
    /\ vol = NoVol /\ price_reads = 0 /\ vol_pc = "call"
    /\ IdleOptions /\ IdleRank /\ IdleMomentum /\ IdleIv /\ IdleReco /\ call_val = 0
    /\ IdleWeb

EstimateHistoricalVolatility ==
    /\ vol_pc = "call"
    /\ vol' = estimate_historical_volatility(prices, window)
    /\ price_reads' = prices_read(prices, window)
    /\ vol_pc' = "done"
    /\ UNCHANGED <<prices, window, argVars, greekVars, strikeVars, spreadVars,
                   rankVars, momVars, ivVars, recoVars, call_val, webVars>>

NextVol == EstimateHistoricalVolatility

SpecVol == InitVol /\ [][NextVol]_vars

(* C14: estimate_historical_volatility returns exactly 0.30 for every price
   list with len(prices) < window + 1, the empty list included, and reads
   no price. *)
C14_DefaultOnShortList ==
    (vol_pc = "done" /\ Len(prices) < window + 1) =>
        /\ vol = [kind |-> "value", value |-> 3000]
        /\ price_reads = 0

\* a list of as many prices as the window, one too few
C14_Witness ==
    /\ vol_pc = "done" /\ window = 3 /\ Len(prices) = 3
    /\ vol.kind = "value" /\ vol.value = 3000 /\ price_reads = 0

---------------------------------------------------------------------------
(* estimate_iv_from_price.  sigma, diff and vega100 (the code's vega after
   its * 100) count units of 1/IvUnit.  The price and the vega of each pass
   are taken as arbitrary values, so diff and vega100 are inputs of the
   pass. *)

IvUnit == 100000
InitialSigma == 30000         \* sigma = 0.30
SigmaFloor == 1000            \* 0.01
SigmaCap == 500000            \* 5.0
VegaEpsilon == 10             \* 0.0001
DiffEpsilon == 10             \* 0.0001
NewtonPasses == 100           \* range(100)

Diffs == {0 - 20000, 0 - 9, 0, 9, 20000}
Vegas == {0, 10, 20000}

\* sigma = sigma + diff / vega100
newton_update(sig, diff, vega100) == sig + DivHalfEven(diff * IvUnit, vega100)

\* sigma = max(0.01, min(sigma, 5.0))
clamp_sigma(sig) == Max(SigmaFloor, Min(sig, SigmaCap))

InitIv ==
    /\ iv_sigma = InitialSigma /\ iv_iter = 0 /\ iv_pc = "loop"
    /\ IdleOptions /\ IdleRank /\ IdleMomentum /\ IdleVol /\ IdleReco /\ call_val = 0
    /\ IdleWeb

\* one pass of the for loop
NewtonPass ==
    /\ iv_pc = "loop" /\ iv_iter < NewtonPasses
    /\ \E diff \in Diffs, vega100 \in Vegas :
           IF vega100 < VegaEpsilon
           THEN /\ iv_pc' = "done"
                /\ UNCHANGED <<iv_sigma, iv_iter>>
           ELSE IF Abs(diff) < DiffEpsilon
           THEN /\ iv_sigma' = newton_update(iv_sigma, diff, vega100)
                /\ iv_pc' = "done"
                /\ UNCHANGED iv_iter
           ELSE /\ iv_sigma' = clamp_sigma(newton_update(iv_sigma, diff, vega100))
                /\ iv_iter' = iv_iter + 1
                /\ UNCHANGED iv_pc
    /\ UNCHANGED <<argVars, greekVars, strikeVars, spreadVars, rankVars,
                   momVars, volVars, recoVars, call_val, webVars>>

\* the loop ran out of passes; return sigma
ReturnSigma ==
    /\ iv_pc = "loop" /\ iv_iter = NewtonPasses
    /\ iv_pc' = "done"
    /\ UNCHANGED <<iv_sigma, iv_iter, argVars, greekVars, strikeVars, spreadVars,
                   rankVars, momVars, volVars, recoVars, call_val, webVars>>

NextIv == NewtonPass \/ ReturnSigma

SpecIv == InitIv /\ [][NextIv]_vars

(* C15: the volatility returned by estimate_iv_from_price lies in
   [0.01, 5.0], whatever the prices and vegas (>= 0.0001) of the passes,
   also when the loop stops early because |diff| < 0.0001. *)
C15_ReturnedSigmaClamped ==
    iv_pc = "done" => (SigmaFloor <= iv_sigma /\ iv_sigma <= SigmaCap)

---------------------------------------------------------------------------
(* STRATEGY ENGINE: calculate_naked_put and build_option_recommendation.
   Performances and the momentum score count units of 1/PctUnits of a
   percent. *)

PerfThreshold63 == 0 - 15000      \* perf_63_5 <= -15
PerfThreshold5 == 5000            \* perf_5_0 <= 5
RiskFreeRate == 500               \* risk_free_rate=0.05
TargetDeltaLong == 0 - 3000       \* delta_target=-0.30, delta_long=-0.30
TargetDeltaShort == 0 - 1000      \* delta_short=-0.10

calculate_naked_put(s, t, rate, sig, delta_target) ==
    LET found == find_strike_by_delta(s, t, rate, sig, delta_target, "put")
    IN  IF pricing_raises(s, found, t, sig)
        THEN [type |-> "raised"]
        ELSE LET price     == put_price(s, found, t, rate, sig)
                 breakeven == found - price
                 max_profit == breakeven
             IN  [type |-> "PUT",
                  spot_price |-> Round2(s),
                  strike |-> Round2(found),
                  price |-> Round2(price),
                  breakeven |-> Round2(breakeven),
                  max_profit |-> Round2(max_profit),
                  max_loss |-> Round2(price),
                  delta |-> round3(delta_put(s, found, t, rate, sig)),
                  gamma |-> gamma(s, found, t, rate, sig),
                  theta |-> theta_put(s, found, t, rate, sig),
                  vega |-> vega(s, found, t, rate, sig),
                  dte |-> t,
                  iv_used |-> DivHalfEven(sig, 10)]

\* conditions = {'perf_63_5_ok': ..., 'perf_5_0_ok': ..., 'iv_rank_ok': True}
conditions_of(p63, p5) ==
    [perf_63_5_ok |-> p63 <= PerfThreshold63,
     perf_5_0_ok |-> p5 <= PerfThreshold5,
     iv_rank_ok |-> TRUE]

\* the conjunction without the condition on perf_63_5
all_conditions_but_downtrend(conditions) ==
    conditions.perf_5_0_ok /\ conditions.iv_rank_ok

\* all(conditions.values())
all_conditions_met(conditions) ==
    \A key \in DOMAIN conditions : conditions[key]

\* spread_width >= spot_price * 0.05
recommend_spread(spread_data, spot) ==
    (spread_data.strike_long - spread_data.strike_short) * 20 >= spot

round2_pct(x) == DivHalfEven(x, 10) * 10      \* round(x, 2) of a percentage

\* only the recommended structure kept in the record
structures_recommended_only(put_data, spread_data, spot) ==
    IF recommend_spread(spread_data, spot)
    THEN [put |-> [type |-> "none"], put_spread |-> spread_data]
    ELSE [put |-> put_data, put_spread |-> [type |-> "none"]]

\* 'put': put_data, 'put_spread': spread_data
structures(put_data, spread_data, spot) ==
    [put |-> put_data, put_spread |-> spread_data]

\* 'entry_rules': {...}
entry_rules ==
    [rsi_range |-> <<40, 55>>, pullback_max_pct |-> 50, no_gap_above_pct |-> 3]

\* 'exit_rules': {...}
exit_rules ==
    [take_profit_pct |-> 80, stop_loss_pct |-> 0 - 50, time_stop_dte |-> 14]

build_option_recommendation(ticker, spot, vol_in, score, p63, p5, dte) ==
    LET conditions  == conditions_of(p63, p5)
        met         == all_conditions_met(conditions)
        put_data    == calculate_naked_put(spot, dte, RiskFreeRate, vol_in,
                                           TargetDeltaLong)
        spread_data == calculate_put_spread(spot, dte, RiskFreeRate, vol_in,
                                            TargetDeltaLong, TargetDeltaShort)
    IN  IF put_data.type = "raised" \/ spread_data.type = "raised"
        THEN [outcome |-> "raised", exception |-> "ValueError or ZeroDivisionError"]
        ELSE [outcome |-> "returned",
              value |->
                [ticker |-> ticker,
                 signal |-> IF met THEN "SHORT_MOMENTUM_OPTION" ELSE "WATCH",
                 momentum_score |-> round2_pct(score),
                 perf_63_5 |-> round2_pct(p63),
                 perf_5_0 |-> round2_pct(p5),
                 spot_price |-> Round2(spot),
                 iv_pct |-> DivHalfEven(vol_in, 10),
                 conditions |-> conditions,
                 all_conditions_met |-> met,
                 recommended_strategy |->
                     IF recommend_spread(spread_data, spot) THEN "PUT_SPREAD"
                     ELSE "PUT",
                 put |-> structures(put_data, spread_data, spot).put,
                 put_spread |-> structures(put_data, spread_data, spot).put_spread,
                 entry_rules |-> entry_rules,
                 exit_rules |-> exit_rules]]

\* the call with the keyword arguments of the caller; the signature has no
\* iv_rank parameter
call_build_option_recommendation(ticker, spot, vol_in, score, p63, p5, dte, rank_arg) ==
    IF rank_arg.passed
    THEN [outcome |-> "raised", exception |-> "TypeError"]
    ELSE build_option_recommendation(ticker, spot, vol_in, score, p63, p5, dte)

RecoSpots == {10, 100, 100000}
RecoIvs == {3000, 5000}
RecoPerfs63 == {0 - 20000, 0 - 15000, 0 - 14990, 0}
RecoPerfs5 == {0 - 5000, 0 - 1000, 6000}
RecoScores == {0 - 15000, 0 - 12345}
RecoDtes == {1, 45}
IvRankArgs ==
    {NoIvRank, [passed |-> TRUE, none |-> TRUE],
     [passed |-> TRUE, none |-> FALSE, value |-> 50],
     [passed |-> TRUE, none |-> FALSE, value |-> 70]}

InitReco ==
    /\ spot_price \in RecoSpots /\ iv \in RecoIvs
    /\ momentum_score \in RecoScores
    /\ perf_63_5 \in RecoPerfs63 /\ perf_5_0 \in RecoPerfs5
    /\ dte_target \in RecoDtes /\ iv_rank \in IvRankArgs
    /\ recommendation = NoRecommendation
    /\ IdleOptions /\ IdleRank /\ IdleMomentum /\ IdleVol /\ IdleIv /\ call_val = 0
    /\ IdleWeb

BuildOptionRecommendation ==
    /\ recommendation = NoRecommendation
    /\ recommendation' =
           call_build_option_recommendation("TEST", spot_price, iv, momentum_score,
                                            perf_63_5, perf_5_0, dte_target, iv_rank)
    /\ UNCHANGED <<spot_price, iv, momentum_score, perf_63_5, perf_5_0, dte_target,
                   iv_rank, argVars, greekVars, strikeVars, spreadVars, rankVars,
                   momVars, volVars, ivVars, call_val, webVars>>

NextReco == BuildOptionRecommendation

SpecReco == InitReco /\ [][NextReco]_vars

RecoReturned == recommendation.outcome = "returned"

(* C16: a record returned by build_option_recommendation has signal 'WATCH'
   whenever perf_63_5 <= -15 is false, whatever perf_5_0, iv,
   momentum_score, spot_price and dte_target are. *)
C16_WatchWithoutDowntrend ==
    (RecoReturned /\ ~(perf_63_5 <= 0 - 15000)) =>
        recommendation.value.signal = "WATCH"

\* perf_63_5 just above -15 with the other conditions met
C16_Witness ==
    /\ RecoReturned /\ perf_63_5 = 0 - 14990 /\ perf_5_0 <= 5000
    /\ recommendation.value.conditions.perf_5_0_ok
    /\ recommendation.value.signal = "WATCH"

\* the iv_rank_ok the record reports under conditions.soft_conditions
HasSoftIvRankOk ==
    /\ RecoReturned
    /\ "soft_conditions" \in DOMAIN recommendation.value.conditions
    /\ "iv_rank_ok" \in DOMAIN recommendation.value.conditions.soft_conditions

IvRankSupplied == iv_rank.passed /\ ~iv_rank.none

(* C17: build_option_recommendation accepts an optional iv_rank and reports
   conditions.soft_conditions.iv_rank_ok as true exactly when an iv_rank is
   supplied and is <= 60; with iv_rank None the returned iv_rank is None and
   iv_rank_ok is false. *)
C17_IvRankOkReported ==
    recommendation # NoRecommendation =>
        /\ HasSoftIvRankOk
        /\ recommendation.value.conditions.soft_conditions.iv_rank_ok
               = (IvRankSupplied /\ iv_rank.value <= 60)
        /\ ~IvRankSupplied =>
               /\ "iv_rank" \in DOMAIN recommendation.value
               /\ recommendation.value.iv_rank = "None"

(* C18: recommended_strategy is 'PUT_SPREAD' when the volatility is elevated
   (iv = 0.50) or perf_5_0 > -2, and 'PUT' otherwise (iv = 0.30 with
   perf_5_0 = -5), whatever the width of the computed spread. *)
C18_StrategyFromVolatilityAndMomentum ==
    RecoReturned =>
        /\ (iv = 5000 \/ perf_5_0 > 0 - 2000) =>
               recommendation.value.recommended_strategy = "PUT_SPREAD"
        /\ (iv = 3000 /\ perf_5_0 = 0 - 5000) =>
               recommendation.value.recommended_strategy = "PUT"

(* C24: every record build_option_recommendation returns holds both
   structures, 'put' and 'put_spread', computed for the spot price, whether
   or not the conditions are met and whichever structure is recommended, and
   its entry_rules and exit_rules are the same fixed values for all
   inputs. *)
C24_BothStructuresFixedRules ==
    RecoReturned =>
        /\ recommendation.value.put.type = "PUT"
        /\ recommendation.value.put.spot_price = Round2(spot_price)
        /\ recommendation.value.put.dte = dte_target
        /\ recommendation.value.put_spread.type = "PUT_SPREAD"
        /\ recommendation.value.put_spread.spot_price = Round2(spot_price)
        /\ recommendation.value.put_spread.dte = dte_target
        /\ recommendation.value.entry_rules
               = [rsi_range |-> <<40, 55>>, pullback_max_pct |-> 50,
                  no_gap_above_pct |-> 3]
        /\ recommendation.value.exit_rules
               = [take_profit_pct |-> 80, stop_loss_pct |-> 0 - 50,
                  time_stop_dte |-> 14]

\* conditions not met and the single put recommended: the spread is there
C24_Witness ==
    /\ RecoReturned
    /\ recommendation.value.signal = "WATCH"
    /\ recommendation.value.recommended_strategy = "PUT"
    /\ recommendation.value.put_spread.type = "PUT_SPREAD"
    /\ recommendation.value.put.type = "PUT"

---------------------------------------------------------------------------
(* Short mode: calculate_short_momentum from the dict analyser_panel_short
   returned to the list of generer_recommandations_short.  The order in
   which the analysis lists its records is an input. *)

MaxShort == 3
ShortMomenta == {0 - 30000, 0 - 10000, 5000}

\* the record lists of up to n records, in every order of their momenta
RECURSIVE ShortResults(_)
ShortResults(n) ==
    IF n = 0 THEN {<<>>}
    ELSE ShortResults(n - 1)
         \cup {Append(l, [ticker |-> [sym |-> n, form |-> "clean"],
                          momentum |-> m,
                          perf_lookback |-> m,
                          perf_recent |-> 2000,
                          prix_actuel |-> 100000,
                          rank |-> n]) :
                   l \in {x \in ShortResults(n - 1) : Len(x) = n - 1},
                   m \in ShortMomenta}

delivered_short(res) ==
    [success |-> Len(res) > 0,
     date_calcul |-> DateCalcul,
     resultats |-> res,
     erreurs |-> <<>>,
     methode |-> [lookback |-> 63, skip_recent |-> 5]]

InitShort ==
    /\ \E res \in ShortResults(MaxShort) :
          /\ analyse = delivered_short(res)
          /\ panel_tickers = [i \in 1..Len(res) |-> [sym |-> i, form |-> "clean"]]
          /\ cursor = Len(res) + 1
          /\ resultats = res
    /\ erreurs = <<>>
    /\ nb_top \in MinNbTopSetting..MaxNbTop
    /\ reco = NoReco /\ rank_pc = "analysed"
    /\ IdleOptions /\ IdleRest

\* calculate_short_momentum once analyser_panel_short returned: the 500
\* answer for a failed analysis, generer_recommandations_short otherwise
CalculateShortMomentum ==
    /\ rank_pc = "analysed" /\ IsShortAnalysis(analyse)
    /\ IF ~analyse.success
       THEN rank_pc' = "failed" /\ UNCHANGED reco
       ELSE /\ reco' = generer_recommandations_short(analyse, nb_top)
            /\ rank_pc' = "done"
    /\ UNCHANGED <<panel_tickers, cursor, resultats, erreurs, analyse, nb_top,
                   argVars, greekVars, strikeVars, spreadVars, restVars>>

NextShort == CalculateShortMomentum

SpecShort == InitShort /\ [][NextShort]_vars

(* C19: the list returned for a short batch has momentum non-decreasing as
   rank increases, its first min(nb_top, count) records carry signal
   'Shorter' and the others 'Couvrir', whatever order the analysis delivered
   the records in. *)
C19_ShortListOrdered ==
    (rank_pc = "done" /\ IsShortAnalysis(analyse)) =>
        /\ \A i, j \in 1..Len(Recs) :
               Recs[i].rank < Recs[j].rank => Recs[i].momentum <= Recs[j].momentum
        /\ \A i \in 1..Len(Recs) :
               Recs[i].signal = IF i <= Min(nb_top, Len(Recs)) THEN "Shorter"
                                ELSE "Couvrir"

---------------------------------------------------------------------------
(* call_price and the put-call parity of the two Black-Scholes prices *)

\* call_price with the strike left undiscounted
call_price_undiscounted(s, k, t, rate, sig) ==
    IF t <= 0 THEN Max(s - k, 0)
    ELSE LET call == (s * norm_cdf(d1(s, k, t, rate, sig))
                        - k * norm_cdf(d2(s, k, t, rate, sig))) \div Unit
         IN  Max(call, 0)

call_price(s, k, t, rate, sig) ==
    IF t <= 0 THEN Max(s - k, 0)
    ELSE LET call == (s * norm_cdf(d1(s, k, t, rate, sig))
                        - Discounted(k, rate, t) * norm_cdf(d2(s, k, t, rate, sig)))
                     \div Unit
         IN  Max(call, 0)

ParitySpots   == {50000, 100000, 100125}
ParityStrikes == {60000, 95000, 100000, 110000}
ParityDays    == {0, 1, 45, 365}
ParityRates   == {0 - 100, 0, 500}
ParitySigmas  == {1000, 3000, 5000}

InitParity ==
    /\ S \in ParitySpots /\ K \in ParityStrikes /\ T \in ParityDays
    /\ r \in ParityRates /\ sigma \in ParitySigmas
    /\ IdleGreeks /\ IdleStrike /\ IdleSpread /\ IdleRank /\ IdleRest

\* both prices of one option, as test_put_call_parity takes them
PriceCallAndPut ==
    /\ evaluated = {}
    /\ call_val' = call_price(S, K, T, r, sigma)
    /\ put_val' = put_price(S, K, T, r, sigma)
    /\ evaluated' = {"call_price", "put_price"}
    /\ UNCHANGED <<delta_val, gamma_val, theta_val, d1_calls, argVars, strikeVars,
                   spreadVars, rankVars, momVars, volVars, ivVars, recoVars,
                   webVars>>

NextParity == PriceCallAndPut

SpecParity == InitParity /\ [][NextParity]_vars

BothPriced == evaluated = {"call_price", "put_price"}

(* C20: put-call parity: for S > 0, K > 0, T > 0 and sigma > 0,
   call_price - put_price differs from S - K * exp(-r * T) by at most
   0.01. *)
C20_PutCallParity ==
    (BothPriced /\ S > 0 /\ K > 0 /\ T > 0 /\ sigma > 0) =>
        Abs((call_val - put_val) - (S - Discounted(K, r, T))) <= CentUnits

\* an option out of the money with both prices positive and a discount
C20_Witness ==
    /\ BothPriced /\ T = 45 /\ r = 500 /\ S = 100000 /\ K = 95000
    /\ call_val > 0 /\ put_val > 0
    /\ Abs((call_val - put_val) - (S - Discounted(K, r, T))) <= CentUnits

---------------------------------------------------------------------------
(* total_investir of generer_recommandations, nb_top of any sign *)

LongRunDone == rank_pc = "done" /\ ~IsShortAnalysis(analyse) /\ analyse.success

Invested == {i \in 1..Len(Recs) : Recs[i].signal = "Investir"}

(* C26 (as amended): for every integer nb_top >= 0 and every successful
   analysis, total_investir equals the number of returned records with
   signal 'Investir' and is not negative. *)
C26_TotalInvestirCountsSelected ==
    (LongRunDone /\ nb_top >= 0) =>
        /\ reco.total_investir = Cardinality(Invested)
        /\ reco.total_investir >= 0

\* nb_top = 0 on a successful analysis: nothing selected, total 0
C26_Witness ==
    /\ LongRunDone /\ nb_top = 0 /\ Len(Recs) > 0
    /\ reco.total_investir = 0 /\ Invested = {}

(* C26 (as stated): for every integer nb_top, 0 and negative values
   included, and every successful analysis, total_investir equals the number
   of returned records with signal 'Investir' and is never negative. *)
C26_TotalInvestirAnyNbTop ==
    LongRunDone =>
        /\ reco.total_investir = Cardinality(Invested)
        /\ reco.total_investir >= 0

---------------------------------------------------------------------------
(* estimate_historical_volatility on two series with the same recent prices *)

AllPositive(price_list) == \A i \in 1..Len(price_list) : price_list[i] > 0

\* the last n entries of the two lists are the same
SameTail(a, b, n) ==
    /\ Len(a) >= n /\ Len(b) >= n
    /\ \A i \in 0..(n - 1) : a[Len(a) - i] = b[Len(b) - i]

\* the series of enough prices that end as prices does
Companions ==
    {other \in PriceLists(MaxPrices) :
        /\ Len(other) >= window + 1 /\ Len(prices) >= window + 1
        /\ SameTail(prices, other, window + 1)}

(* C27 (as amended): for window >= 1 and any two series of positive prices
   of length >= window + 1 that agree on their last window + 1 entries, the
   two calls of estimate_historical_volatility return the same value and
   neither raises, whatever the older entries are. *)
C27_RecentPositivePricesDecide ==
    (vol_pc = "done" /\ window >= 1 /\ AllPositive(prices)) =>
        \A other \in Companions :
            AllPositive(other) =>
                /\ vol.kind = "value"
                /\ estimate_historical_volatility(other, window) = vol

\* a volatility computed from the recent prices of a longer series, which
\* has a companion with other older prices
C27_Witness ==
    /\ vol_pc = "done" /\ window = 2 /\ Len(prices) = 4 /\ AllPositive(prices)
    /\ vol.kind = "value" /\ vol.value # DefaultVolatility /\ vol.value > 0
    /\ \E other \in Companions : AllPositive(other) /\ other # prices

(* C27 (as stated): for any two numeric price series of length
   >= window + 1 that agree on their last window + 1 entries, the two calls
   end the same way: the same value returned, neither raising. *)
C27_RecentPricesDecide ==
    vol_pc = "done" =>
        \A other \in Companions :
            /\ vol.kind = "value"
            /\ estimate_historical_volatility(other, window) = vol
---------------------------------------------------------------------------
(* The web application (app.py): the admin guard, the settings, the panels *)
(* and the recommendation history.  A ticker or a stored value is a text,  *)
(* modelled as the sequence of its characters; a date text is modelled by  *)
(* its separator and its three numeric fields.                             *)

Passwords == {NoPassword, "secret"}

\* the X-Admin-Token header of a request; "" is the default of a missing one
Tokens == {"", "guess", "secret"}

\* a guard that lets a request without the header through
require_admin_missing_token_passes(password, token) ==
    password = NoPassword \/ token = password \/ token = ""

\* TRUE when the decorated handler is called, FALSE when 401 is answered
require_admin(password, token) ==
    password = NoPassword \/ token = password

---------------------------------------------------------------------------
(* Settings *)

\* str(n) of a non-negative integer: its decimal digits
RECURSIVE str(_)
str(n) == IF n < 10 THEN <<n>> ELSE Append(str(n \div 10), n % 10)

\* Settings.set: the row of the key holds the text, created when missing
Settings_set(stored, key, text) ==
    [stored EXCEPT ![key] = [row |-> TRUE, value |-> text]]

EmptyText == [sep |-> "", year |-> 0, month |-> 0, day |-> 0]

LeapYear(y) == (y % 4 = 0 /\ y % 100 # 0) \/ y % 400 = 0

DaysInMonth(y, m) ==
    IF m = 2 THEN (IF LeapYear(y) THEN 29 ELSE 28)
    ELSE IF m \in {4, 6, 9, 11} THEN 30 ELSE 31

\* datetime.strptime(text, '%Y-%m-%d') raises ValueError
strptime_raises(text) ==
    ~ ( /\ text.sep = "-"
        /\ text.year \in 1..9999
        /\ text.month \in 1..12
        /\ text.day \in 1..DaysInMonth(text.year, text.month) )

\* the body of update_settings: status answered and rows left in the table
update_settings(data, stored) ==
    LET nb_given   == "nb_top" \in DOMAIN data
        date_given == "date_calcul" \in DOMAIN data
        nb_valid   == MinNbTopSetting <= data.nb_top /\ data.nb_top <= MaxNbTopSetting
        after_nb   == IF nb_given
                      THEN Settings_set(stored, "nb_top", str(data.nb_top))
                      ELSE stored
    IN  IF nb_given /\ ~nb_valid
        THEN [status |-> 400, settings |-> stored]
        ELSE IF ~date_given
        THEN [status |-> 200, settings |-> after_nb]
        ELSE IF data.date_calcul # EmptyText /\ strptime_raises(data.date_calcul)
        THEN [status |-> 400, settings |-> after_nb]
        ELSE [status |-> 200,
              settings |-> Settings_set(after_nb, "date_calcul", data.date_calcul)]

\* the body of update_short_settings
update_short_settings(data, stored) ==
    LET nb_given   == "nb_top" \in DOMAIN data
        date_given == "date_calcul" \in DOMAIN data
        nb_valid   == MinNbTopSetting <= data.nb_top /\ data.nb_top <= MaxNbTopSetting
        after_nb   == IF nb_given
                      THEN Settings_set(stored, "short_nb_top", str(data.nb_top))
                      ELSE stored
    IN  IF nb_given /\ ~nb_valid
        THEN [status |-> 400, settings |-> stored]
        ELSE IF ~date_given
        THEN [status |-> 200, settings |-> after_nb]
        ELSE IF data.date_calcul # EmptyText /\ strptime_raises(data.date_calcul)
        THEN [status |-> 400, settings |-> after_nb]
        ELSE [status |-> 200,
              settings |-> Settings_set(after_nb, "short_date_calcul",
                                        data.date_calcul)]

---------------------------------------------------------------------------
(* Panels *)

upper_char(c) == IF c = "a" THEN "A" ELSE IF c = "b" THEN "B" ELSE c

\* text.upper()
RECURSIVE upper(_)
upper(text) ==
    IF text = <<>> THEN <<>> ELSE <<upper_char(Head(text))>> \o upper(Tail(text))

\* text.strip()
RECURSIVE strip(_)
strip(text) ==
    IF text = <<>> THEN <<>>
    ELSE IF Head(text) = " " THEN strip(Tail(text))
    ELSE IF text[Len(text)] = " " THEN strip(SubSeq(text, 1, Len(text) - 1))
    ELSE text

\* query.filter_by(ticker=ticker).first(): index of the row, 0 for None
first_row(rows, ticker) ==
    LET hits == {i \in 1..Len(rows) : rows[i].ticker = ticker}
    IN  IF hits = {} THEN 0 ELSE CHOOSE i \in hits : \A j \in hits : i <= j

new_row(ticker) == [ticker |-> ticker, is_active |-> TRUE]

set_active(rows, i, flag) == [rows EXCEPT ![i].is_active = flag]

\* the body of add_to_panel; valid is the answer of the ticker validation
add_to_panel(raw, valid, rows) ==
    LET ticker   == strip(upper(raw))
        existing == first_row(rows, ticker)
    IN  IF ticker = <<>> THEN [status |-> 400, rows |-> rows]
        ELSE IF existing # 0
        THEN IF rows[existing].is_active
             THEN [status |-> 400, rows |-> rows]
             ELSE [status |-> 200, rows |-> set_active(rows, existing, TRUE)]
        ELSE IF ~valid THEN [status |-> 400, rows |-> rows]
        ELSE [status |-> 200, rows |-> Append(rows, new_row(ticker))]

\* the body of remove_from_panel
remove_from_panel(raw, rows) ==
    LET ticker == upper(raw)
        action == first_row(rows, ticker)
    IN  IF action = 0 THEN [status |-> 404, rows |-> rows]
        ELSE [status |-> 200, rows |-> set_active(rows, action, FALSE)]

\* query.update({is_active: False})
RECURSIVE deactivate_all(_)
deactivate_all(rows) ==
    IF rows = <<>> THEN <<>>
    ELSE <<[Head(rows) EXCEPT !.is_active = FALSE]>> \o deactivate_all(Tail(rows))

\* the loop of apply_generated_panel over the tickers of the body
RECURSIVE activate_each(_, _)
activate_each(rows, tickers) ==
    IF tickers = <<>> THEN rows
    ELSE LET ticker   == strip(upper(Head(tickers)))
             existing == first_row(rows, ticker)
             stepped  == IF ticker = <<>> THEN rows
                         ELSE IF existing # 0
                         THEN set_active(rows, existing, TRUE)
                         ELSE Append(rows, new_row(ticker))
         IN  activate_each(stepped, Tail(tickers))

\* an apply that leaves the rows of the table as active as they were
apply_generated_panel_keeping_active(tickers, rows) ==
    IF tickers = <<>> THEN [status |-> 400, rows |-> rows]
    ELSE [status |-> 200, rows |-> activate_each(rows, tickers)]

\* the body of apply_generated_panel
apply_generated_panel(tickers, rows) ==
    IF tickers = <<>> THEN [status |-> 400, rows |-> rows]
    ELSE [status |-> 200, rows |-> activate_each(deactivate_all(rows), tickers)]

\* the loop of import_panel over the items of the file, for one table
RECURSIVE import_each(_, _)
import_each(rows, tickers) ==
    IF tickers = <<>> THEN rows
    ELSE LET ticker   == strip(upper(Head(tickers)))
             existing == first_row(rows, ticker)
             stepped  == IF ticker = <<>> THEN rows
                         ELSE IF existing # 0
                         THEN (IF ~rows[existing].is_active
                               THEN set_active(rows, existing, TRUE)
                               ELSE rows)
                         ELSE Append(rows, new_row(ticker))
         IN  import_each(stepped, Tail(tickers))

\* the body of import_panel
import_panel(data, rows, short_rows) ==
    IF data.tickers = <<>>
    THEN [status |-> 400, rows |-> rows, short_rows |-> short_rows]
    ELSE IF data.strategy = "short"
    THEN [status |-> 200, rows |-> rows,
          short_rows |-> import_each(short_rows, data.tickers)]
    ELSE [status |-> 200, rows |-> import_each(rows, data.tickers),
          short_rows |-> short_rows]

active_tickers(rows) == {rows[i].ticker : i \in {j \in 1..Len(rows) : rows[j].is_active}}

---------------------------------------------------------------------------
(* Calculation routes: the analysis is the service's; its outcome is an input *)

\* rows kept in a history table
MaxHistory == 1

\* get_momentum_service() gives None; the analysis fails; it succeeds
Outcomes == {"no_service", "failed", "success"}

\* the body of calculate_momentum and of calculate_and_notify
calculate_momentum(outcome, rows, history) ==
    IF outcome = "no_service" THEN [status |-> 500, history |-> history]
    ELSE IF active_tickers(rows) = {} THEN [status |-> 400, history |-> history]
    ELSE IF outcome = "failed" THEN [status |-> 500, history |-> history]
    ELSE [status |-> 200, history |-> history + 1]

---------------------------------------------------------------------------
(* Requests *)

ValidDate   == [sep |-> "-", year |-> 2024, month |-> 1, day |-> 15]
InvalidDate == [sep |-> "-", year |-> 2024, month |-> 13, day |-> 45]

NbTopInputs == {0, 10}
DateInputs  == {EmptyText, ValidDate, InvalidDate}

\* JSON bodies of the settings routes: either field may be missing
SettingsBodies ==
    {[nb_top |-> n] : n \in NbTopInputs}
    \cup {[date_calcul |-> d] : d \in DateInputs}
    \cup {[nb_top |-> n, date_calcul |-> d] : n \in NbTopInputs, d \in DateInputs}

\* tickers as sent: "", " a", "B"
RawTickers == {<<>>, <<" ", "a">>, <<"B">>}

\* tickers in the path of a DELETE
PathTickers == {<<"a">>, <<"B">>}

TickerLists ==
    {<<>>} \cup {<<t>> : t \in RawTickers}
    \cup {<<t, u>> : t \in RawTickers, u \in RawTickers}

ImportBodies ==
    {[strategy |-> s, tickers |-> l] : s \in {"long", "short"}, l \in TickerLists}

served(route, token, tickers) ==
    [route |-> route, token |-> token, tickers |-> tickers]

answered(status) == [status |-> status]

\* the decorator answers 401 and the handler is not called
Denied == last_response' = answered(401) /\ UNCHANGED storedVars

appVars == <<ADMIN_PASSWORD, argVars, greekVars, strikeVars, spreadVars,
             rankVars, momVars, volVars, ivVars, recoVars, call_val>>

InitApp ==
    /\ ADMIN_PASSWORD \in Passwords
    /\ settings = NoSettings
    /\ panel_actions = <<>> /\ short_panel_actions = <<>>
    /\ recommendation_history = 0 /\ short_recommendation_history = 0
    /\ last_request = NoRequest /\ last_response = NoResponse
    /\ IdleOptions /\ IdleRank /\ IdleMomentum /\ IdleVol /\ IdleIv /\ IdleReco
    /\ call_val = 0

UpdateSettings(bodies) ==
    \E token \in Tokens, data \in bodies :
        LET result == update_settings(data, settings) IN
        /\ last_request' = served("update_settings", token, <<>>)
        /\ IF require_admin(ADMIN_PASSWORD, token)
           THEN /\ last_response' = answered(result.status)
                /\ settings' = result.settings
                /\ UNCHANGED <<panel_actions, short_panel_actions,
                               recommendation_history,
                               short_recommendation_history>>
           ELSE Denied
        /\ UNCHANGED appVars

UpdateShortSettings(bodies) ==
    \E token \in Tokens, data \in bodies :
        LET result == update_short_settings(data, settings) IN
        /\ last_request' = served("update_short_settings", token, <<>>)
        /\ IF require_admin(ADMIN_PASSWORD, token)
           THEN /\ last_response' = answered(result.status)
                /\ settings' = result.settings
                /\ UNCHANGED <<panel_actions, short_panel_actions,
                               recommendation_history,
                               short_recommendation_history>>
           ELSE Denied
        /\ UNCHANGED appVars

AddToPanel(raws) ==
    \E token \in Tokens, raw \in raws, valid \in BOOLEAN :
        LET result == add_to_panel(raw, valid, panel_actions) IN
        /\ last_request' = served("add_to_panel", token, <<raw>>)
        /\ IF require_admin(ADMIN_PASSWORD, token)
           THEN /\ last_response' = answered(result.status)
                /\ panel_actions' = result.rows
                /\ UNCHANGED <<settings, short_panel_actions,
                               recommendation_history,
                               short_recommendation_history>>
           ELSE Denied
        /\ UNCHANGED appVars

RemoveFromPanel(raws) ==
    \E token \in Tokens, raw \in raws :
        LET result == remove_from_panel(raw, panel_actions) IN
        /\ last_request' = served("remove_from_panel", token, <<raw>>)
        /\ IF require_admin(ADMIN_PASSWORD, token)
           THEN /\ last_response' = answered(result.status)
                /\ panel_actions' = result.rows
                /\ UNCHANGED <<settings, short_panel_actions,
                               recommendation_history,
                               short_recommendation_history>>
           ELSE Denied
        /\ UNCHANGED appVars

ImportPanel(bodies) ==
    \E token \in Tokens, data \in bodies :
        LET result == import_panel(data, panel_actions, short_panel_actions) IN
        /\ last_request' = served("import_panel", token, data.tickers)
        /\ IF require_admin(ADMIN_PASSWORD, token)
           THEN /\ last_response' = answered(result.status)
                /\ panel_actions' = result.rows
                /\ short_panel_actions' = result.short_rows
                /\ UNCHANGED <<settings, recommendation_history,
                               short_recommendation_history>>
           ELSE Denied
        /\ UNCHANGED appVars

ApplyGeneratedPanel(lists) ==
    \E token \in Tokens, tickers \in lists :
        LET result == apply_generated_panel(tickers, panel_actions) IN
        /\ last_request' = served("apply_generated_panel", token, tickers)
        /\ IF require_admin(ADMIN_PASSWORD, token)
           THEN /\ last_response' = answered(result.status)
                /\ panel_actions' = result.rows
                /\ UNCHANGED <<settings, short_panel_actions,
                               recommendation_history,
                               short_recommendation_history>>
           ELSE Denied
        /\ UNCHANGED appVars

\* add_to_short_panel repeats add_to_panel on the short table
AddToShortPanel(raws) ==
    \E token \in Tokens, raw \in raws, valid \in BOOLEAN :
        LET result == add_to_panel(raw, valid, short_panel_actions) IN
        /\ last_request' = served("add_to_short_panel", token, <<raw>>)
        /\ IF require_admin(ADMIN_PASSWORD, token)
           THEN /\ last_response' = answered(result.status)
                /\ short_panel_actions' = result.rows
                /\ UNCHANGED <<settings, panel_actions, recommendation_history,
                               short_recommendation_history>>
           ELSE Denied
        /\ UNCHANGED appVars

\* remove_from_short_panel repeats remove_from_panel on the short table
RemoveFromShortPanel(raws) ==
    \E token \in Tokens, raw \in raws :
        LET result == remove_from_panel(raw, short_panel_actions) IN
        /\ last_request' = served("remove_from_short_panel", token, <<raw>>)
        /\ IF require_admin(ADMIN_PASSWORD, token)
           THEN /\ last_response' = answered(result.status)
                /\ short_panel_actions' = result.rows
                /\ UNCHANGED <<settings, panel_actions, recommendation_history,
                               short_recommendation_history>>
           ELSE Denied
        /\ UNCHANGED appVars

\* apply_short_panel repeats apply_generated_panel on the short table
ApplyShortPanel(lists) ==
    \E token \in Tokens, tickers \in lists :
        LET result == apply_generated_panel(tickers, short_panel_actions) IN
        /\ last_request' = served("apply_short_panel", token, tickers)
        /\ IF require_admin(ADMIN_PASSWORD, token)
           THEN /\ last_response' = answered(result.status)
                /\ short_panel_actions' = result.rows
                /\ UNCHANGED <<settings, panel_actions, recommendation_history,
                               short_recommendation_history>>
           ELSE Denied
        /\ UNCHANGED appVars

CalculateMomentum ==
    \E token \in Tokens, outcome \in Outcomes :
        LET result == calculate_momentum(outcome, panel_actions,
                                         recommendation_history) IN
        /\ result.history <= MaxHistory
        /\ last_request' = served("calculate_momentum", token, <<>>)
        /\ IF require_admin(ADMIN_PASSWORD, token)
           THEN /\ last_response' = answered(result.status)
                /\ recommendation_history' = result.history
                /\ UNCHANGED <<settings, panel_actions, short_panel_actions,
                               short_recommendation_history>>
           ELSE Denied
        /\ UNCHANGED appVars

CalculateAndNotify ==
    \E token \in Tokens, outcome \in Outcomes :
        LET result == calculate_momentum(outcome, panel_actions,
                                         recommendation_history) IN
        /\ result.history <= MaxHistory
        /\ last_request' = served("calculate_and_notify", token, <<>>)
        /\ IF require_admin(ADMIN_PASSWORD, token)
           THEN /\ last_response' = answered(result.status)
                /\ recommendation_history' = result.history
                /\ UNCHANGED <<settings, panel_actions, short_panel_actions,
                               short_recommendation_history>>
           ELSE Denied
        /\ UNCHANGED appVars

\* the route of calculate_short_momentum repeats calculate_momentum on the
\* short tables
ShortCalculateRoute ==
    \E token \in Tokens, outcome \in Outcomes :
        LET result == calculate_momentum(outcome, short_panel_actions,
                                         short_recommendation_history) IN
        /\ result.history <= MaxHistory
        /\ last_request' = served("calculate_short_momentum", token, <<>>)
        /\ IF require_admin(ADMIN_PASSWORD, token)
           THEN /\ last_response' = answered(result.status)
                /\ short_recommendation_history' = result.history
                /\ UNCHANGED <<settings, panel_actions, short_panel_actions,
                               recommendation_history>>
           ELSE Denied
        /\ UNCHANGED appVars

NextSettings == UpdateSettings(SettingsBodies) \/ UpdateShortSettings(SettingsBodies)

SpecSettings == InitApp /\ [][NextSettings]_vars

NextPanel ==
    \/ AddToPanel(RawTickers) \/ RemoveFromPanel(PathTickers)
    \/ ImportPanel(ImportBodies) \/ ApplyGeneratedPanel(TickerLists)

SpecPanel == InitApp /\ [][NextPanel]_vars

\* the requests of the administration as a whole: one body that is stored, one
\* that is refused, one ticker
AdminSettingsBodies == {[nb_top |-> 10, date_calcul |-> ValidDate], [nb_top |-> 0]}
AdminTickers == {<<" ", "a">>}
AdminPaths == {<<"a">>}
AdminLists == {<<>>, <<<<" ", "a">>>>}
AdminImports ==
    {[strategy |-> s, tickers |-> l] : s \in {"long", "short"}, l \in AdminLists}

NextAdmin ==
    \/ UpdateSettings(AdminSettingsBodies) \/ UpdateShortSettings(AdminSettingsBodies)
    \/ AddToPanel(AdminTickers) \/ RemoveFromPanel(AdminPaths)
    \/ ImportPanel(AdminImports) \/ ApplyGeneratedPanel(AdminLists)
    \/ AddToShortPanel(AdminTickers) \/ RemoveFromShortPanel(AdminPaths)
    \/ ApplyShortPanel(AdminLists)
    \/ CalculateMomentum \/ CalculateAndNotify \/ ShortCalculateRoute

SpecAdmin == InitApp /\ [][NextAdmin]_vars

---------------------------------------------------------------------------
(* Claims on the web application *)

GuardedRoutes ==
    {"update_settings", "update_short_settings", "add_to_panel",
     "remove_from_panel", "import_panel", "apply_generated_panel",
     "add_to_short_panel", "remove_from_short_panel", "apply_short_panel",
     "calculate_momentum", "calculate_and_notify", "calculate_short_momentum"}

\* a password is configured and the request's token is missing or differs
BadToken(req) ==
    /\ ADMIN_PASSWORD # NoPassword
    /\ req.route \in GuardedRoutes
    /\ req.token # ADMIN_PASSWORD

\* C28: when an admin password is configured, every state-changing route
\* called with a missing or non-matching X-Admin-Token answers 401 and the
\* step that serves it leaves the settings, both panels and both histories
\* as they were, wherever in a sequence of requests it comes.
C28_BadTokenDenied ==
    /\ [](BadToken(last_request) => last_response.status = 401)
    /\ [][BadToken(last_request') => UNCHANGED storedVars]_vars

\* a request with a wrong token is refused while settings, a panel row and a
\* history row are stored
C28_Witness ==
    /\ BadToken(last_request) /\ last_request.token = "guess"
    /\ last_response.status = 401
    /\ settings["nb_top"].row /\ panel_actions # <<>>
    /\ recommendation_history > 0

\* C29 (as stated): every settings request answered 400 leaves all stored
\* settings unchanged, also with a valid nb_top and an invalid date_calcul.
C29_SettingsAllOrNothing ==
    [][(/\ last_request'.route \in {"update_settings", "update_short_settings"}
        /\ last_response'.status = 400)
       => settings' = settings]_vars

AppliedOk ==
    /\ last_request.route = "apply_generated_panel"
    /\ last_response.status = 200

\* the non-empty upper-cased, stripped tickers of the request
requested_tickers ==
    {strip(upper(last_request.tickers[i])) : i \in 1..Len(last_request.tickers)}
    \ {<<>>}

OneRowPerTicker(rows) ==
    \A i, j \in 1..Len(rows) : rows[i].ticker = rows[j].ticker => i = j

RowsKept(before, after) ==
    /\ Len(before) <= Len(after)
    /\ \A i \in 1..Len(before) : after[i].ticker = before[i].ticker

\* C30: after a successful apply_generated_panel the active long-panel
\* tickers are exactly the non-empty upper-cased, stripped tickers of the
\* request; the table never holds two rows of one ticker; and no step of
\* add, remove, import or apply deletes a row.
C30_ApplyReplacesActiveSet ==
    /\ [](AppliedOk => active_tickers(panel_actions) = requested_tickers)
    /\ [](OneRowPerTicker(panel_actions))
    /\ [][RowsKept(panel_actions, panel_actions')]_vars

\* an apply that listed one ticker twice, reactivated or added its single row
\* and left the other row inactive
C30_Witness ==
    /\ AppliedOk
    /\ Len(last_request.tickers) = 2
    /\ last_request.tickers[1] = last_request.tickers[2]
    /\ Len(panel_actions) = 2
    /\ \E i \in 1..2 : ~panel_actions[i].is_active
    /\ \E i \in 1..2 : panel_actions[i].is_active

===========================================================================
